---- MODULE Spec2Model ----
(***************************************************************************)
(* Return / advantage estimation and gradient-correction pipeline of the   *)
(* xagents ACER and PPO agents (src/acer.py, src/ppo.py).                  *)
(*                                                                         *)
(* Tensors are functions over 0-based index ranges, as in the Python code. *)
(* Floating-point numbers are modelled by exact rationals <<num, den>> in  *)
(* lowest terms with den > 0, so that every equality below is an equality  *)
(* of real numbers.                                                        *)
(***************************************************************************)
EXTENDS Integers, Sequences, FiniteSets, TLC

\* ------------------------------------------------------------------------
\* Exact rational arithmetic (stands for the float32 arithmetic of numpy / tf)
\* ------------------------------------------------------------------------
Abs(x) == IF x < 0 THEN -x ELSE x

RECURSIVE GCD(_, _)
GCD(a, b) == IF b = 0 THEN a ELSE GCD(b, a % b)

Rat(n, d) ==
    LET s == IF d < 0 THEN -1 ELSE 1
        g == GCD(Abs(n), Abs(d))
    IN  <<(s * n) \div g, (s * d) \div g>>

RInt(n) == <<n, 1>>
RZero == <<0, 1>>
ROne == <<1, 1>>

RNeg(a) == <<-a[1], a[2]>>

RAdd(a, b) ==
    LET g == GCD(a[2], b[2])
        l == (a[2] \div g) * b[2]
    IN  Rat(a[1] * (l \div a[2]) + b[1] * (l \div b[2]), l)

RSub(a, b) == RAdd(a, RNeg(b))

RMul(a, b) ==
    LET g1 == GCD(Abs(a[1]), b[2])
        g2 == GCD(Abs(b[1]), a[2])
    IN  IF a[1] = 0 \/ b[1] = 0 THEN RZero
        ELSE <<(a[1] \div g1) * (b[1] \div g2), (a[2] \div g2) * (b[2] \div g1)>>

RDiv(a, b) == RMul(a, Rat(b[2], b[1]))

RLe(a, b) == a[1] * b[2] <= b[1] * a[2]
RLt(a, b) == a[1] * b[2] < b[1] * a[2]

RMin(a, b) == IF RLe(a, b) THEN a ELSE b
RMax(a, b) == IF RLe(a, b) THEN b ELSE a

\* vectors indexed from 0
Vec1(a) == (0 :> a)
Vec2(a, b) == (0 :> a) @@ (1 :> b)
Vec3(a, b, c) == (0 :> a) @@ (1 :> b) @@ (2 :> c)

\* sum of f[lo], ..., f[hi] (zero when the range is empty)
RECURSIVE RSum(_, _, _)
RSum(f, lo, hi) == IF hi < lo THEN RZero ELSE RAdd(RSum(f, lo, hi - 1), f[hi])

\* g^k for a rational g and a natural k
RECURSIVE RPow(_, _)
RPow(g, k) == IF k = 0 THEN ROne ELSE RMul(g, RPow(g, k - 1))

\* ------------------------------------------------------------------------
\* Bounds of the model
\* ------------------------------------------------------------------------
MaxSteps == 2      \* n_steps ranges over 1..MaxSteps in the generic inputs
MaxEnvs == 2       \* n_envs ranges over 1..MaxEnvs in the generic inputs
MaxBatch == 2      \* sample rows of one gradient batch range over 1..MaxBatch
MaxPpoBatch == 4   \* batch_size = n_envs * n_steps of run_ppo_epochs ranges over 1..MaxPpoBatch
MaxMiniBatches == 3  \* mini_batches ranges over 1..MaxMiniBatches
MaxEpochs == 2     \* ppo_epochs ranges over 1..MaxEpochs
MaxIterations == 3  \* ACER.train_step is called at most MaxIterations times
MaxReplays == 2    \* np.random.poisson returns a value in 0..MaxReplays
MaxParams == 2     \* the model has 1..MaxParams trainable variables
MaxSections == 3   \* a model configuration has 1..MaxSections sections
MaxBuilds == 2     \* ModelReader.build_model is called at most MaxBuilds times
MaxSkips == 3      \* frame_skips of AtariPreprocessor ranges over -1..MaxSkips
MaxBufferSize == 2  \* state_buffer_size of AtariPreprocessor ranges over 1..MaxBufferSize
MaxEnvCalls == 2   \* step and reset of one AtariPreprocessor are called at most MaxEnvCalls times
MaxGroups == 2     \* an argv holds at most MaxGroups options after the command and the agent

VARIABLES
    acer_in,          \* arguments of ACER.calculate_returns (flat tensors) + n_envs, n_steps, gamma
    acer_pc,          \* position inside ACER.calculate_returns
    acer_i,           \* loop variable i of ACER.calculate_returns
    current_return,   \* local current_return (one entry per actor)
    returns,          \* local list returns (appended in reverse step order)
    acer_out,         \* returned flat tensor
    gae_in,           \* arguments of PPO.calculate_returns + n_envs, n_steps, gamma, lam
    gae_pc,           \* position inside PPO.calculate_returns
    gae_step,         \* loop variable step
    last_lam,         \* local last_lam (one entry per actor)
    delta,            \* local delta of the last iteration (one entry per actor)
    advantages,       \* local advantages, shape (n_steps, n_envs)
    gae_out,          \* returned array, shape (n_steps, n_envs)
    tr_in,            \* ACER.calculate_grads: trust_region, delta, epsilon, g, action_probs, avg_action_probs
    tr_pc,            \* position inside ACER.calculate_grads
    tr_k,             \* local k, one row per sample
    tr_adj,           \* local adj, one entry per sample
    tr_g,             \* local g (projected once calculate_grads has run), one row per sample
    output_grads,     \* local output_grads, one row per sample
    pg_in,            \* PPO.update_gradients: arguments, model outputs and coefficients
    pg_pc,            \* position inside PPO.update_gradients
    ratio,            \* local ratio, one entry per sample
    pg_loss,          \* local pg_loss
    value_loss,       \* local value_loss
    loss,             \* local loss
    ep_in,            \* PPO.run_ppo_epochs: batch_size, mini_batches, ppo_epochs, returns, old_values
    ep_pc,            \* position inside PPO.run_ppo_epochs
    indices,          \* local indices (shuffled in place at each epoch)
    ep_epoch,         \* number of completed epochs of the outer loop
    ep_i,             \* loop variable i of the inner loop
    partitions,       \* batch_indices of every mini-batch of the current epoch, in order
    updates,          \* number of update_gradients calls made so far
    advantages_mb,    \* advantages argument of the last update_gradients call
    al_in,            \* ACER.calculate_losses: coefficients, trust_region, action_probs, selected_probs
    al_pc,            \* position inside ACER.calculate_losses
    al_entropy,       \* local entropy
    al_weight,        \* tf.minimum(self.importance_c, selected_importance), one entry per sample
    al_action_loss,   \* local action_loss
    al_value_loss,    \* local value_loss
    al_out,           \* returned value: <<loss, value_loss>> with trust region, <<loss>> without
    ts_cfg,           \* ACER.__init__: n_envs, buffer sizes, replay_ratio, ema_alpha
    ts_pc,            \* "call": between train_step calls, "run": the traced graph is executing
    ts_iter,          \* number of train_step calls started
    buffers,          \* self.buffers, one store per actor, oldest entry first
    appends,          \* number of store_batch calls made
    weights,          \* self.model.trainable_variables
    ema_avg,          \* averages held by self.ema
    avg_weights,      \* weights of self.avg_model
    graph,            \* the traced body of train_step: << >> before the first call, then [k |-> replay updates]
    ts_drawn,         \* np.random.poisson was called during the current train_step call
    py_done,          \* numpy_function ops of the graph that have run in this call
    fwd_done,         \* update_gradients forward passes that have run in this call
    apply_done,       \* optimizer.apply_gradients ops that have run in this call
    ema_done,         \* ema.apply ops that have run in this call
    sample_occ,       \* occupancy of each store at the last concat_buffer_samples of this call
    fl_in,            \* a rollout as get_batch collects it: n_envs, n_steps, gamma and the per-step data
    fl_pc,            \* position in the chain get_batch, flat_to_steps, stack, clip_last_step, calculate_returns
    fl_batch,         \* the flat tensors ACER.get_batch returns
    fl_steps,         \* result of flat_to_steps on a tensor of n_envs * n_steps entries
    fl_restacked,     \* the steps of fl_steps stacked along axis 1 and flattened
    fl_clipped,       \* result of clip_last_step on a tensor of n_envs * (n_steps + 1) entries
    ag_in,            \* ACER.calculate_grads, trust-region mode: (action_grads, value_grads), one pair per parameter
    ag_pc,            \* position inside ACER.update_gradients
    ag_i,             \* parameters whose pair the list comprehension of calculate_grads has consumed
    ag_grads,         \* gradients returned by add_grads so far
    ag_error,         \* message of the AssertionError that ended the call
    ag_steps,         \* optimizer steps applied by this update_gradients call
    ag_ema_updates,   \* moving-average updates and copies made by this update_gradients call
    mr_in,            \* ModelReader: the sections of the configuration, in order, and output_units
    mr_pc,            \* "call": no build_model call is active, "loop": inside its loop, "raised": ended by the assertion
    mr_sec,           \* sections the loop of build_model has processed
    output_count,     \* self.output_count
    mr_layers,        \* layers created by the current (or last) build_model call: kind and units
    mr_error,         \* message of the AssertionError that ended the call
    mr_calls,         \* build_model calls started
    mr_builds,        \* build_model calls completed
    mr_first,         \* layers created by the first completed build_model call
    ap_in,            \* arguments of AtariPreprocessor.__init__
    ap_pc,            \* position inside AtariPreprocessor.__init__ / step
    skips,            \* self.skips
    observation_buffer,\* self.observation_buffer, a deque (oldest frame first)
    ap_maxlen,        \* maxlen of self.observation_buffer
    scale_frames,     \* self.scale_frames
    ap_i,             \* iterations of the loop of step begun so far
    total_reward,     \* local total_reward of step
    ap_done,          \* local done of step
    ap_max_frame,     \* local max_frame of step
    ap_inner,         \* reward and done flag of every self.env.step of the current step call
    ap_ret,           \* value returned by the last step or reset
    ap_calls,         \* number of step and reset calls so far
    ap_error,         \* the exception raised by __init__, if any
    ex_call,          \* the Executor method called last ("" between calls)
    ex_argv,          \* argv of the last call
    ex_pre,           \* self.command, self.agent_id and self.agent when the last call started
    command,          \* self.command
    agent_id,         \* self.agent_id
    agent,            \* self.agent
    ex_out,           \* what the last call printed
    ex_error,         \* the exception the last call raised ("" if it returned)
    ex_warning,       \* the unknown flags the last call warned about
    ex_ret            \* what the last call returned

acerVars == <<acer_in, acer_pc, acer_i, current_return, returns, acer_out>>

gaeVars == <<gae_in, gae_pc, gae_step, last_lam, delta, advantages, gae_out>>

trVars == <<tr_in, tr_pc, tr_k, tr_adj, tr_g, output_grads>>

pgVars == <<pg_in, pg_pc, ratio, pg_loss, value_loss, loss>>

epVars == <<ep_in, ep_pc, indices, ep_epoch, ep_i, partitions, updates, advantages_mb>>

alVars == <<al_in, al_pc, al_entropy, al_weight, al_action_loss, al_value_loss, al_out>>

tsVars == <<ts_cfg, ts_pc, ts_iter, buffers, appends, weights, ema_avg, avg_weights, graph, ts_drawn, py_done, fwd_done, apply_done, ema_done, sample_occ>>

flVars == <<fl_in, fl_pc, fl_batch, fl_steps, fl_restacked, fl_clipped>>

agVars == <<ag_in, ag_pc, ag_i, ag_grads, ag_error, ag_steps, ag_ema_updates>>

mrVars == <<mr_in, mr_pc, mr_sec, output_count, mr_layers, mr_error, mr_calls, mr_builds, mr_first>>

apVars == <<ap_in, ap_pc, skips, observation_buffer, ap_maxlen, scale_frames, ap_i, total_reward, ap_done, ap_max_frame, ap_inner, ap_ret, ap_calls, ap_error>>

exVars == <<ex_call, ex_argv, ex_pre, command, agent_id, agent, ex_out, ex_error, ex_warning, ex_ret>>

vars == <<acerVars, gaeVars, trVars, pgVars, epVars, alVars, tsVars, flVars, agVars, mrVars, apVars, exVars>>

\* what the steps of one function leave alone: the state of the others
acerFrame == <<gaeVars, trVars, pgVars, epVars, alVars, tsVars, flVars, agVars, mrVars, apVars, exVars>>
gaeFrame == <<acerVars, trVars, pgVars, epVars, alVars, tsVars, flVars, agVars, mrVars, apVars, exVars>>
trFrame == <<acerVars, gaeVars, pgVars, epVars, alVars, tsVars, flVars, agVars, mrVars, apVars, exVars>>
pgFrame == <<acerVars, gaeVars, trVars, epVars, alVars, tsVars, flVars, agVars, mrVars, apVars, exVars>>
epFrame == <<acerVars, gaeVars, trVars, pgVars, alVars, tsVars, flVars, agVars, mrVars, apVars, exVars>>
alFrame == <<acerVars, gaeVars, trVars, pgVars, epVars, tsVars, flVars, agVars, mrVars, apVars, exVars>>
tsFrame == <<acerVars, gaeVars, trVars, pgVars, epVars, alVars, flVars, agVars, mrVars, apVars, exVars>>
flFrame == <<acerVars, gaeVars, trVars, pgVars, epVars, alVars, tsVars, agVars, mrVars, apVars, exVars>>
\* what the hand-over of a rollout to calculate_returns leaves alone
flCallFrame == <<gaeVars, trVars, pgVars, epVars, alVars, tsVars, agVars, mrVars, apVars, exVars>>
agFrame == <<acerVars, gaeVars, trVars, pgVars, epVars, alVars, tsVars, flVars, mrVars, apVars, exVars>>
mrFrame == <<acerVars, gaeVars, trVars, pgVars, epVars, alVars, tsVars, flVars, agVars, apVars, exVars>>
apFrame == <<acerVars, gaeVars, trVars, pgVars, epVars, alVars, tsVars, flVars, agVars, mrVars, exVars>>
exFrame == <<acerVars, gaeVars, trVars, pgVars, epVars, alVars, tsVars, flVars, agVars, mrVars, apVars>>

\* ------------------------------------------------------------------------
\* ACER.flat_to_steps / ACER.calculate_returns   (src/acer.py)
\* ------------------------------------------------------------------------

\* tf.reshape(t, (n_envs, steps)) followed by tf.split(..., steps, 1) and
\* tf.squeeze: a list of `steps` vectors, vector s holding t[e*steps + s].
FlatToSteps(t, n_envs, steps) ==
    [s \in 0..(steps - 1) |-> [e \in 0..(n_envs - 1) |-> t[e * steps + s]]]

\* tf.minimum(1.0, selected_importance), elementwise on the flat tensor
ImportanceBar(selected_importance) ==
    [j \in DOMAIN selected_importance |-> RMin(ROne, selected_importance[j])]

\* rewards[i] + self.gamma * current_return * (1.0 - dones[i]), for one actor
\* variant: the episode boundary is ignored
TdTargetNoDone(reward, gamma, cur, done) == RAdd(reward, RMul(gamma, cur))
TdTarget(reward, gamma, cur, done) ==
    RAdd(reward, RMul(RMul(gamma, cur), RSub(ROne, done)))

\* importance_bar[i] * (current_return - selected_critic_logits[i]) + values[i]
\* variant: critic logit and state value exchanged
RetraceNextSwapped(imp_bar, cur, q, value) == RAdd(RMul(imp_bar, RSub(cur, value)), q)
RetraceNext(imp_bar, cur, q, value) == RAdd(RMul(imp_bar, RSub(cur, q)), value)

\* tf.reshape(tf.stack(returns[::-1], 1), [-1]): returns holds the vectors of
\* steps n_steps-1, ..., 0 (1-based sequence); the result is flat, actor-major.
StackReturns(rets, n_envs, n_steps) ==
    [j \in 0..(n_envs * n_steps - 1) |->
        rets[n_steps - (j % n_steps)][j \div n_steps]]

AcerImportanceBar ==
    FlatToSteps(ImportanceBar(acer_in.selected_importance), acer_in.n_envs, acer_in.n_steps)
AcerDones == FlatToSteps(acer_in.dones, acer_in.n_envs, acer_in.n_steps)
AcerRewards == FlatToSteps(acer_in.rewards, acer_in.n_envs, acer_in.n_steps)
AcerCriticLogits ==
    FlatToSteps(acer_in.selected_critic_logits, acer_in.n_envs, acer_in.n_steps)
AcerValues == FlatToSteps(acer_in.values, acer_in.n_envs, acer_in.n_steps + 1)

\* --- inputs of ACER.calculate_returns --------------------------------------
\* One transition as update_gradients hands it over: reward, done flag,
\* critic logit of the taken action, importance ratio of the taken action and
\* state value.
AcerStepCases == <<
    [r |-> RInt(1),  d |-> RZero, q |-> Rat(3, 5),  imp |-> RInt(2),   v |-> Rat(1, 2)],
    [r |-> RInt(2),  d |-> RZero, q |-> Rat(1, 2),  imp |-> Rat(1, 2), v |-> Rat(2, 5)],
    [r |-> RZero,    d |-> ROne,  q |-> ROne,       imp |-> Rat(3, 2), v |-> RZero],
    [r |-> RInt(-1), d |-> RZero, q |-> RZero,      imp |-> ROne,      v |-> ROne],
    [r |-> ROne,     d |-> ROne,  q |-> Rat(-1, 2), imp |-> Rat(1, 4), v |-> Rat(3, 10)] >>

AcerBootValues == << Rat(3, 10), RZero, RInt(-1) >>

AcerGammas == { Rat(9, 10), Rat(1, 2), ROne }

\* Actor e follows the base trajectory shifted by e cases, so that the actors
\* of one batch carry different data.
AcerCase(base, e, s) == AcerStepCases[((base[s] - 1 + e) % Len(AcerStepCases)) + 1]
AcerBoot(boot, e) == AcerBootValues[((boot - 1 + e) % Len(AcerBootValues)) + 1]

\* The flat tensors in the actor-major layout ACER.get_batch emits
\* (item.swapaxes(0, 1).reshape(-1)): actor e, step s at index e*n_steps + s.
AcerInput(n_envs, n_steps, gamma, base, boot) ==
    [ n_envs |-> n_envs, n_steps |-> n_steps, gamma |-> gamma,
      rewards |-> [j \in 0..(n_envs * n_steps - 1) |->
                      AcerCase(base, j \div n_steps, j % n_steps).r],
      dones |-> [j \in 0..(n_envs * n_steps - 1) |->
                      AcerCase(base, j \div n_steps, j % n_steps).d],
      selected_critic_logits |-> [j \in 0..(n_envs * n_steps - 1) |->
                      AcerCase(base, j \div n_steps, j % n_steps).q],
      selected_importance |-> [j \in 0..(n_envs * n_steps - 1) |->
                      AcerCase(base, j \div n_steps, j % n_steps).imp],
      values |-> [j \in 0..(n_envs * (n_steps + 1) - 1) |->
                      IF j % (n_steps + 1) = n_steps
                      THEN AcerBoot(boot, j \div (n_steps + 1))
                      ELSE AcerCase(base, j \div (n_steps + 1), j % (n_steps + 1)).v] ]

AcerInputsOf(ns) ==
    { AcerInput(ne, ns, g, base, boot) :
        ne \in 1..MaxEnvs, g \in AcerGammas, boot \in 1..Len(AcerBootValues),
        base \in [0..(ns - 1) -> 1..Len(AcerStepCases)] }

AcerInputs == UNION { AcerInputsOf(ns) : ns \in 1..MaxSteps }

AcerIdle ==
    /\ acer_in = << >>
    /\ acer_pc = "idle"
    /\ acer_i = 0
    /\ current_return = << >>
    /\ returns = << >>
    /\ acer_out = << >>

AcerInit ==
    /\ acer_in \in AcerInputs
    /\ acer_pc = "entry"
    /\ acer_i = 0
    /\ current_return = << >>
    /\ returns = << >>
    /\ acer_out = << >>

\* lines 192-198: the five flat_to_steps calls and current_return = values[-1]
AcerEnter ==
    /\ acer_pc = "entry"
    /\ current_return' = AcerValues[acer_in.n_steps]
    /\ returns' = << >>
    /\ acer_i' = acer_in.n_steps - 1
    /\ acer_pc' = "loop"
    /\ UNCHANGED <<acer_in, acer_out, acerFrame>>

\* lines 199-204: one iteration of  for i in reversed(range(self.n_steps))
AcerLoop ==
    /\ acer_pc = "loop"
    /\ acer_i >= 0
    /\ LET td == [e \in 0..(acer_in.n_envs - 1) |->
                    TdTarget(AcerRewards[acer_i][e], acer_in.gamma,
                             current_return[e], AcerDones[acer_i][e])]
       IN  /\ returns' = Append(returns, td)
           /\ current_return' =
                [e \in 0..(acer_in.n_envs - 1) |->
                    RetraceNext(AcerImportanceBar[acer_i][e], td[e],
                                AcerCriticLogits[acer_i][e], AcerValues[acer_i][e])]
    /\ acer_i' = acer_i - 1
    /\ UNCHANGED <<acer_in, acer_pc, acer_out, acerFrame>>

\* line 205: return tf.reshape(tf.stack(returns[::-1], 1), [-1])
AcerReturn ==
    /\ acer_pc = "loop"
    /\ acer_i < 0
    /\ acer_out' = StackReturns(returns, acer_in.n_envs, acer_in.n_steps)
    /\ acer_pc' = "done"
    /\ UNCHANGED <<acer_in, acer_i, current_return, returns, acerFrame>>

AcerNext == AcerEnter \/ AcerLoop \/ AcerReturn

\* ------------------------------------------------------------------------
\* PPO.calculate_returns   (src/ppo.py)
\* ------------------------------------------------------------------------

\* values = np.concatenate([values, np.expand_dims(next_values, 0)])
GaeValuesExt(values, next_values, n_steps) ==
    [s \in 0..n_steps |-> IF s < n_steps THEN values[s] ELSE next_values]

\* dones = np.concatenate([dones, np.expand_dims(dones[-1], 0)])
\* variant: the appended flag is 0 instead of dones[-1]
GaeDonesExtZero(dones, n_steps) ==
    [s \in 0..n_steps |-> IF s < n_steps THEN dones[s]
                          ELSE [e \in DOMAIN dones[0] |-> RZero]]
GaeDonesExt(dones, n_steps) ==
    [s \in 0..n_steps |-> IF s < n_steps THEN dones[s] ELSE dones[n_steps - 1]]

\* next_non_terminal = 1 - dones[step + 1]
\* variant: the flag of the step itself is read
NextNonTerminalSameStep(dones_ext, step, e) == RSub(ROne, dones_ext[step][e])
NextNonTerminal(dones_ext, step, e) == RSub(ROne, dones_ext[step + 1][e])

\* delta = rewards[step] + self.gamma * next_values * next_non_terminal - values[step]
\* variant: the next value is not discounted
GaeDeltaNoGamma(reward, gamma, next_value, nnt, value) ==
    RSub(RAdd(reward, RMul(next_value, nnt)), value)
GaeDelta(reward, gamma, next_value, nnt, value) ==
    RSub(RAdd(reward, RMul(RMul(gamma, next_value), nnt)), value)

\* delta + self.gamma * self.lam * next_non_terminal * last_lam
\* variant: the carried advantage is not decayed by lam
GaeAdvantageNoLam(d, gamma, lam, nnt, last) ==
    RAdd(d, RMul(RMul(gamma, nnt), last))
GaeAdvantage(d, gamma, lam, nnt, last) ==
    RAdd(d, RMul(RMul(RMul(gamma, lam), nnt), last))

GaeValues == GaeValuesExt(gae_in.values, gae_in.next_values, gae_in.n_steps)
GaeDones == GaeDonesExt(gae_in.dones, gae_in.n_steps)

\* --- inputs of PPO.calculate_returns ----------------------------------------
\* One transition of the rollout: reward, done flag, value estimate.
GaeStepCases == <<
    [r |-> RInt(1),   d |-> RZero, v |-> Rat(1, 2)],
    [r |-> RZero,     d |-> ROne,  v |-> Rat(2, 5)],
    [r |-> RInt(2),   d |-> RZero, v |-> RInt(-1)],
    [r |-> RInt(-1),  d |-> RZero, v |-> ROne],
    [r |-> Rat(1, 2), d |-> ROne,  v |-> Rat(3, 10)] >>

GaeBootValues == << RZero, Rat(1, 2), RInt(-2) >>

GaeGammas == { Rat(9, 10), Rat(1, 2), ROne }
GaeLams == { RZero, Rat(1, 2), ROne }

GaeCase(base, e, s) == GaeStepCases[((base[s] - 1 + e) % Len(GaeStepCases)) + 1]
GaeBoot(boot, e) == GaeBootValues[((boot - 1 + e) % Len(GaeBootValues)) + 1]

\* The rollout arrays of shape (n_steps, n_envs) and the value of the final
\* state, self.model(states[-1])[2], one entry per actor.
GaeInput(n_envs, n_steps, gamma, lam, base, boot) ==
    [ n_envs |-> n_envs, n_steps |-> n_steps, gamma |-> gamma, lam |-> lam,
      rewards |-> [s \in 0..(n_steps - 1) |->
                      [e \in 0..(n_envs - 1) |-> GaeCase(base, e, s).r]],
      dones |-> [s \in 0..(n_steps - 1) |->
                      [e \in 0..(n_envs - 1) |-> GaeCase(base, e, s).d]],
      values |-> [s \in 0..(n_steps - 1) |->
                      [e \in 0..(n_envs - 1) |-> GaeCase(base, e, s).v]],
      next_values |-> [e \in 0..(n_envs - 1) |-> GaeBoot(boot, e)] ]

GaeInputsOf(ns) ==
    { GaeInput(ne, ns, g, l, base, boot) :
        ne \in 1..MaxEnvs, g \in GaeGammas, l \in GaeLams,
        boot \in 1..Len(GaeBootValues),
        base \in [0..(ns - 1) -> 1..Len(GaeStepCases)] }

\* the rollout of the GAE scenario: gamma = 0.99, lambda = 0.95, one actor
GaeScenarioInput ==
    GaeInput(1, 2, Rat(99, 100), Rat(95, 100), Vec2(1, 2), 1)

GaeInputs == UNION { GaeInputsOf(ns) : ns \in 1..MaxSteps } \cup { GaeScenarioInput }

GaeIdle ==
    /\ gae_in = << >>
    /\ gae_pc = "idle"
    /\ gae_step = 0
    /\ last_lam = << >>
    /\ delta = << >>
    /\ advantages = << >>
    /\ gae_out = << >>

GaeInit ==
    /\ gae_in \in GaeInputs
    /\ gae_pc = "entry"
    /\ gae_step = 0
    /\ last_lam = << >>
    /\ delta = << >>
    /\ advantages = << >>
    /\ gae_out = << >>

\* lines 57-61: advantages = np.zeros_like(rewards), last_lam = 0 and the two
\* concatenations
GaeEnter ==
    /\ gae_pc = "entry"
    /\ advantages' = [s \in 0..(gae_in.n_steps - 1) |->
                         [e \in 0..(gae_in.n_envs - 1) |-> RZero]]
    /\ last_lam' = [e \in 0..(gae_in.n_envs - 1) |-> RZero]
    /\ gae_step' = gae_in.n_steps - 1
    /\ gae_pc' = "loop"
    /\ UNCHANGED <<gae_in, delta, gae_out, gaeFrame>>

\* lines 62-72: one iteration of  for step in reversed(range(self.n_steps))
GaeLoop ==
    /\ gae_pc = "loop"
    /\ gae_step >= 0
    /\ LET nnt == [e \in 0..(gae_in.n_envs - 1) |->
                      NextNonTerminal(GaeDones, gae_step, e)]
           dl == [e \in 0..(gae_in.n_envs - 1) |->
                      GaeDelta(gae_in.rewards[gae_step][e], gae_in.gamma,
                               GaeValues[gae_step + 1][e], nnt[e],
                               GaeValues[gae_step][e])]
           adv == [e \in 0..(gae_in.n_envs - 1) |->
                      GaeAdvantage(dl[e], gae_in.gamma, gae_in.lam, nnt[e], last_lam[e])]
       IN  /\ delta' = dl
           /\ last_lam' = adv
           /\ advantages' = [advantages EXCEPT ![gae_step] = adv]
    /\ gae_step' = gae_step - 1
    /\ UNCHANGED <<gae_in, gae_pc, gae_out, gaeFrame>>

\* line 73: return advantages + values[:-1]
GaeReturn ==
    /\ gae_pc = "loop"
    /\ gae_step < 0
    /\ gae_out' = [s \in 0..(gae_in.n_steps - 1) |->
                      [e \in 0..(gae_in.n_envs - 1) |->
                          RAdd(advantages[s][e], GaeValues[s][e])]]
    /\ gae_pc' = "done"
    /\ UNCHANGED <<gae_in, gae_step, last_lam, delta, advantages, gaeFrame>>

GaeNext == GaeEnter \/ GaeLoop \/ GaeReturn

\* ------------------------------------------------------------------------
\* ACER.calculate_grads, the trust-region projection   (src/acer.py)
\* ------------------------------------------------------------------------

\* sum over the action axis (tf.reduce_sum(..., axis=-1)) of one row
RowSum(row) == RSum(row, 0, Cardinality(DOMAIN row) - 1)

\* k = -avg_action_probs / (action_probs + self.epsilon), one row
TrK(avg_row, prob_row, eps) ==
    [a \in DOMAIN prob_row |-> RDiv(RNeg(avg_row[a]), RAdd(prob_row[a], eps))]

\* adj = tf.maximum(0.0, (reduce_sum(k * g) - delta) / (reduce_sum(square(k)) + epsilon))
\* variant: without the tf.maximum(0.0, ...) clamp
TrAdjUnclamped(k_row, g_row, dlt, eps) ==
    RDiv(RSub(RowSum([a \in DOMAIN k_row |-> RMul(k_row[a], g_row[a])]), dlt),
         RAdd(RowSum([a \in DOMAIN k_row |-> RMul(k_row[a], k_row[a])]), eps))
TrAdj(k_row, g_row, dlt, eps) ==
    RMax(RZero,
         RDiv(RSub(RowSum([a \in DOMAIN k_row |-> RMul(k_row[a], g_row[a])]), dlt),
              RAdd(RowSum([a \in DOMAIN k_row |-> RMul(k_row[a], k_row[a])]), eps)))

\* g = g - tf.reshape(adj, [n, 1]) * k, one row
TrProject(g_row, adj_row, k_row) ==
    [a \in DOMAIN g_row |-> RSub(g_row[a], RMul(adj_row, k_row[a]))]

\* --- inputs of ACER.calculate_grads -----------------------------------------
\* gradient of the actor loss w.r.t. the action probabilities of one sample
TrGradRows == { Vec2(RInt(-1), RZero), Vec2(RZero, RInt(2)), Vec2(RInt(-2), RInt(-4)),
                Vec2(RInt(-4), Rat(1, 2)) }
\* action probabilities of the model and of the average model for one sample
TrProbRows == { Vec2(Rat(1, 4), Rat(3, 4)), Vec2(ROne, RZero) }
TrAvgProbRows == { Vec2(Rat(1, 2), Rat(1, 2)), Vec2(Rat(3, 4), Rat(1, 4)) }
TrDeltas == { ROne, Rat(1, 10), RInt(100) }
TrEpsilons == { Rat(1, 2), Rat(1, 4) }

TrInputsOf(n) ==
    [ trust_region : {TRUE}, n : {n}, delta : TrDeltas, epsilon : TrEpsilons,
      g : [0..(n - 1) -> TrGradRows],
      action_probs : [0..(n - 1) -> TrProbRows],
      avg_action_probs : [0..(n - 1) -> TrAvgProbRows] ]
    \cup
    [ trust_region : {FALSE}, n : {n}, delta : {ROne}, epsilon : TrEpsilons,
      g : {[r \in 0..(n - 1) |-> Vec2(RInt(-2), RInt(-4))]},
      action_probs : {[r \in 0..(n - 1) |-> Vec2(Rat(1, 2), Rat(1, 2))]},
      avg_action_probs : {[r \in 0..(n - 1) |-> Vec2(Rat(1, 2), Rat(1, 2))]} ]

TrInputs == UNION { TrInputsOf(n) : n \in 1..MaxBatch }

TrIdle ==
    /\ tr_in = << >>
    /\ tr_pc = "idle"
    /\ tr_k = << >>
    /\ tr_adj = << >>
    /\ tr_g = << >>
    /\ output_grads = << >>

\* line 274: g = tape.gradient(loss, action_probs), taken from the tape
TrInit ==
    /\ tr_in \in TrInputs
    /\ tr_pc = "entry"
    /\ tr_k = << >>
    /\ tr_adj = << >>
    /\ tr_g = tr_in.g
    /\ output_grads = << >>

\* lines 271-272: without trust region the tape's parameter gradients are
\* returned and nothing is projected
CalculateGradsPlain ==
    /\ tr_pc = "entry"
    /\ ~tr_in.trust_region
    /\ tr_pc' = "returned"
    /\ UNCHANGED <<tr_in, tr_k, tr_adj, tr_g, output_grads, trFrame>>

\* lines 273-285: k, adj, the projected g and output_grads
CalculateGradsProject ==
    /\ tr_pc = "entry"
    /\ tr_in.trust_region
    /\ LET rows == 0..(tr_in.n - 1)
           kk == [r \in rows |->
                    TrK(tr_in.avg_action_probs[r], tr_in.action_probs[r], tr_in.epsilon)]
           aa == [r \in rows |-> TrAdj(kk[r], tr_g[r], tr_in.delta, tr_in.epsilon)]
           gg == [r \in rows |-> TrProject(tr_g[r], aa[r], kk[r])]
       IN  /\ tr_k' = kk
           /\ tr_adj' = aa
           /\ tr_g' = gg
           /\ output_grads' =
                [r \in rows |-> [a \in DOMAIN gg[r] |-> RDiv(RNeg(gg[r][a]), RInt(tr_in.n))]]
    /\ tr_pc' = "projected"
    /\ UNCHANGED <<tr_in, trFrame>>

TrNext == CalculateGradsPlain \/ CalculateGradsProject

\* ------------------------------------------------------------------------
\* PPO.update_gradients, the loss   (src/ppo.py)
\* ------------------------------------------------------------------------

\* tf.reduce_mean of a vector indexed 0..n-1
Mean(v) == RDiv(RSum(v, 0, Cardinality(DOMAIN v) - 1), RInt(Cardinality(DOMAIN v)))

\* tf.clip_by_value(x, lo, hi) = minimum(maximum(x, lo), hi)
ClipByValue(x, lo, hi) == RMin(RMax(x, lo), hi)

\* ratio = tf.exp(log_probs - old_log_probs).  A log-probability is carried
\* by the probability it is the logarithm of, so exp(log p - log q) = p / q.
PgRatio(prob, old_prob) == RDiv(prob, old_prob)

\* pg_loss1 = -advantages * ratio
PgLoss1(advantage, r) == RMul(RNeg(advantage), r)

\* pg_loss2 = -advantages * tf.clip_by_value(ratio, 1 - clip_norm, 1 + clip_norm)
PgLoss2(advantage, r, clip_norm) ==
    RMul(RNeg(advantage), ClipByValue(r, RSub(ROne, clip_norm), RAdd(ROne, clip_norm)))

\* tf.maximum(pg_loss1, pg_loss2), one sample
\* variant: tf.minimum in place of tf.maximum
PgSurrogateMin(l1, l2) == RMin(l1, l2)
PgSurrogate(l1, l2) == RMax(l1, l2)

\* clipped_values = old_values + clip(values - old_values, -clip_norm, clip_norm);
\* tf.maximum(square(values - returns), square(clipped_values - returns))
ValueLossTerm(value, old_value, ret, clip_norm) ==
    LET clipped == RAdd(old_value,
                        ClipByValue(RSub(value, old_value), RNeg(clip_norm), clip_norm))
        l1 == RMul(RSub(value, ret), RSub(value, ret))
        l2 == RMul(RSub(clipped, ret), RSub(clipped, ret))
    IN  RMax(l1, l2)

\* --- inputs of PPO.update_gradients -----------------------------------------
\* advantage, old value and return of one sample, with the value the model
\* now predicts for it
PgSampleCases == {
    [advantage |-> RInt(-1),  old_value |-> ROne,      ret |-> RZero,  value |-> Rat(1, 2)],
    [advantage |-> RZero,     old_value |-> Rat(1, 2), ret |-> Rat(1, 2), value |-> ROne],
    [advantage |-> RInt(2),   old_value |-> RInt(-1),  ret |-> ROne,   value |-> RZero],
    [advantage |-> Rat(1, 2), old_value |-> RZero,     ret |-> Rat(1, 2), value |-> Rat(1, 4)] }

\* probability of the taken action under the current and the old policy
PgProbCases == {
    [prob |-> Rat(1, 2), old_prob |-> Rat(1, 2)],
    [prob |-> Rat(3, 4), old_prob |-> Rat(1, 2)],
    [prob |-> Rat(1, 4), old_prob |-> Rat(1, 2)],
    [prob |-> Rat(1, 2), old_prob |-> Rat(1, 4)] }

PgClipNorms == { RZero, Rat(1, 10), Rat(1, 2), ROne }

PgInputsOf(n) ==
    [ n : {n}, clip_norm : PgClipNorms,
      entropy : {Rat(1, 2)}, entropy_coef : {Rat(1, 100)}, value_loss_coef : {Rat(1, 2)},
      sample : [0..(n - 1) -> PgSampleCases],
      probs : [0..(n - 1) -> PgProbCases] ]

PgInputs == UNION { PgInputsOf(n) : n \in 1..MaxBatch }

PgIdle ==
    /\ pg_in = << >>
    /\ pg_pc = "idle"
    /\ ratio = << >>
    /\ pg_loss = RZero
    /\ value_loss = RZero
    /\ loss = RZero

PgInit ==
    /\ pg_in \in PgInputs
    /\ pg_pc = "entry"
    /\ ratio = << >>
    /\ pg_loss = RZero
    /\ value_loss = RZero
    /\ loss = RZero

\* lines 91-110: the forward pass under the tape.  The gradient step of lines
\* 111-114 acts on the network parameters, which are not part of this model.
UpdateGradientsLoss ==
    /\ pg_pc = "entry"
    /\ LET rows == 0..(pg_in.n - 1)
           rr == [i \in rows |-> PgRatio(pg_in.probs[i].prob, pg_in.probs[i].old_prob)]
           pl == Mean([i \in rows |->
                    PgSurrogate(PgLoss1(pg_in.sample[i].advantage, rr[i]),
                                PgLoss2(pg_in.sample[i].advantage, rr[i], pg_in.clip_norm))])
           vl == RMul(Rat(1, 2),
                      Mean([i \in rows |->
                          ValueLossTerm(pg_in.sample[i].value, pg_in.sample[i].old_value,
                                        pg_in.sample[i].ret, pg_in.clip_norm)]))
       IN  /\ ratio' = rr
           /\ pg_loss' = pl
           /\ value_loss' = vl
           /\ loss' = RAdd(RSub(pl, RMul(pg_in.entropy, pg_in.entropy_coef)),
                           RMul(vl, pg_in.value_loss_coef))
    /\ pg_pc' = "done"
    /\ UNCHANGED <<pg_in, pgFrame>>

PgNext == UpdateGradientsLoss

\* ------------------------------------------------------------------------
\* PPO.__init__ (batch sizes) and PPO.run_ppo_epochs   (src/ppo.py)
\* ------------------------------------------------------------------------

\* self.batch_size = self.n_envs * self.n_steps
BatchSize(n_envs, n_steps) == n_envs * n_steps

\* self.mini_batch_size = self.batch_size // self.mini_batches
\* variant: the number of mini-batches taken as their size
MiniBatchSizeIsCount(batch_size, mini_batches) == mini_batches
MiniBatchSize(batch_size, mini_batches) == batch_size \div mini_batches

\* indices[i : i + mini_batch_size]: a Python slice stops at the end of the
\* array; the result is a 1-based sequence of the selected entries
Slice(arr, n, lo, len) ==
    LET hi == IF lo + len < n THEN lo + len ELSE n
    IN  [q \in 1..(hi - lo) |-> arr[lo + q - 1]]

\* what np.random.shuffle can leave in an array that holds 0..n-1
ShuffleResults(n) ==
    { f \in [0..(n - 1) -> 0..(n - 1)] :
        \A a, b \in 0..(n - 1) : f[a] = f[b] => a = b }

\* advantages_mb = returns_mb - old_values_mb, on the selected entries
RawAdvantages(rets, old_values, batch_indices) ==
    [q \in 1..Len(batch_indices) |->
        RSub(rets[batch_indices[q]], old_values[batch_indices[q]])]

\* --- inputs of PPO.run_ppo_epochs -------------------------------------------
\* returns and old values of the flattened rollout, by transition index
EpValueCases(n) == {
    [returns |-> [j \in 0..(n - 1) |-> RInt(j + 1)],
     old_values |-> [j \in 0..(n - 1) |-> RZero]],
    [returns |-> [j \in 0..(n - 1) |-> Rat(1, 2)],
     old_values |-> [j \in 0..(n - 1) |-> Rat(j, 2)]] }

EpInputs ==
    { [ n_envs |-> ne, n_steps |-> ns, batch_size |-> BatchSize(ne, ns),
        mini_batches |-> mb, ppo_epochs |-> pe,
        mini_batch_size |-> MiniBatchSize(BatchSize(ne, ns), mb),
        returns |-> vc.returns, old_values |-> vc.old_values ] :
        ne \in 1..MaxPpoBatch, ns \in 1..MaxPpoBatch,
        mb \in 1..MaxMiniBatches, pe \in 1..MaxEpochs,
        vc \in UNION { EpValueCases(n) : n \in 1..MaxPpoBatch } }

EpIdle ==
    /\ ep_in = << >>
    /\ ep_pc = "idle"
    /\ indices = << >>
    /\ ep_epoch = 0
    /\ ep_i = 0
    /\ partitions = << >>
    /\ updates = 0
    /\ advantages_mb = << >>

\* line 129: indices = np.arange(self.batch_size)
EpInit ==
    /\ ep_in \in { x \in EpInputs :
                     /\ x.batch_size <= MaxPpoBatch
                     /\ DOMAIN x.returns = 0..(x.batch_size - 1) }
    /\ ep_pc = "epoch"
    /\ indices = [j \in 0..(ep_in.batch_size - 1) |-> j]
    /\ ep_epoch = 0
    /\ ep_i = 0
    /\ partitions = << >>
    /\ updates = 0
    /\ advantages_mb = << >>

\* lines 130-132: the next epoch starts: np.random.shuffle(indices), then the
\* inner loop is entered at i = 0
EpShuffle ==
    /\ ep_pc = "epoch"
    /\ ep_epoch < ep_in.ppo_epochs
    /\ ep_in.mini_batch_size > 0
    /\ indices' \in ShuffleResults(ep_in.batch_size)
    /\ ep_i' = 0
    /\ partitions' = << >>
    /\ ep_pc' = "batch"
    /\ UNCHANGED <<ep_in, ep_epoch, updates, advantages_mb, epFrame>>

\* lines 130-132 with mini_batch_size = 0: after the shuffle,
\* range(0, batch_size, 0) raises ValueError and the call is abandoned
EpRangeError ==
    /\ ep_pc = "epoch"
    /\ ep_epoch < ep_in.ppo_epochs
    /\ ep_in.mini_batch_size = 0
    /\ indices' \in ShuffleResults(ep_in.batch_size)
    /\ ep_pc' = "error"
    /\ UNCHANGED <<ep_in, ep_epoch, ep_i, partitions, updates, advantages_mb, epFrame>>

\* lines 133-162: one mini-batch.  The standardised expression of lines
\* 152-154 is evaluated and its value dropped; advantages_mb keeps the
\* difference of line 151 and is what update_gradients receives.
EpMiniBatch ==
    /\ ep_pc = "batch"
    /\ ep_i < ep_in.batch_size
    /\ LET batch_indices == Slice(indices, ep_in.batch_size, ep_i, ep_in.mini_batch_size)
       IN  /\ partitions' = Append(partitions, batch_indices)
           /\ advantages_mb' = RawAdvantages(ep_in.returns, ep_in.old_values, batch_indices)
    /\ updates' = updates + 1
    /\ ep_i' = ep_i + ep_in.mini_batch_size
    /\ UNCHANGED <<ep_in, ep_pc, indices, ep_epoch, epFrame>>

\* line 132 exhausted: the epoch is complete
EpEpochEnd ==
    /\ ep_pc = "batch"
    /\ ep_i >= ep_in.batch_size
    /\ ep_epoch' = ep_epoch + 1
    /\ ep_pc' = "epoch"
    /\ UNCHANGED <<ep_in, indices, ep_i, partitions, updates, advantages_mb, epFrame>>

\* line 130 exhausted: run_ppo_epochs returns
EpReturn ==
    /\ ep_pc = "epoch"
    /\ ep_epoch >= ep_in.ppo_epochs
    /\ ep_pc' = "done"
    /\ UNCHANGED <<ep_in, indices, ep_epoch, ep_i, partitions, updates, advantages_mb, epFrame>>

EpNext == EpShuffle \/ EpRangeError \/ EpMiniBatch \/ EpEpochEnd \/ EpReturn

\* ------------------------------------------------------------------------
\* ACER.clip_last_step / ACER.calculate_losses   (src/acer.py)
\* ------------------------------------------------------------------------

\* tf.reshape(tf.stack(ts, 1), (-1, ...)) on the first `steps` vectors of ts:
\* stacked along axis 1 and flattened, actor-major
StackSteps(ts, n_envs, steps) ==
    [j \in 0..(n_envs * steps - 1) |-> ts[j % steps][j \div steps]]

\* ts = self.flat_to_steps(t, self.n_steps + 1);
\* tf.reshape(tf.stack(ts[:-1], 1), (-1, ...))
ClipLastStep(t, n_envs, n_steps) ==
    StackSteps(FlatToSteps(t, n_envs, n_steps + 1), n_envs, n_steps)

\* tf.math.log, tabulated to one decimal at the arguments p + epsilon that the
\* inputs below produce
Log(x) ==
    CASE x = Rat(1, 2) -> Rat(-7, 10)
      [] x = Rat(3, 4) -> Rat(-3, 10)
      [] x = ROne -> RZero
      [] x = Rat(5, 4) -> Rat(1, 5)

\* tf.reduce_mean(-tf.reduce_sum(action_probs * tf.math.log(action_probs + epsilon), axis=1))
AcerEntropy(action_probs, eps) ==
    Mean([j \in DOMAIN action_probs |->
        RNeg(RowSum([a \in DOMAIN action_probs[j] |->
            RMul(action_probs[j][a], Log(RAdd(action_probs[j][a], eps)))]))])

\* tf.minimum(self.importance_c, selected_importance), one sample
\* variant: the truncation at 1 of calculate_returns used here as well
ActorGainWeightUnit(importance_c, imp) == RMin(ROne, imp)
ActorGainWeight(importance_c, imp) == RMin(importance_c, imp)

\* action_gain = log_probs * stop_gradient(advantages * weight), one sample
ActionGain(selected_prob, eps, advantage, weight) ==
    RMul(Log(RAdd(selected_prob, eps)), RMul(advantage, weight))

\* value_loss = reduce_mean(square(stop_gradient(returns) - selected_critic_logits) * 0.5)
\*              * self.value_loss_coef
AcerValueLoss(rets, selected_critic_logits, value_loss_coef) ==
    RMul(Mean([j \in DOMAIN rets |->
            RMul(RMul(RSub(rets[j], selected_critic_logits[j]),
                      RSub(rets[j], selected_critic_logits[j])), Rat(1, 2))]),
         value_loss_coef)

\* -(action_loss - self.entropy_coef * entropy) * self.n_steps * self.n_envs
TrustRegionLoss(action_loss, entropy, entropy_coef, n_steps, n_envs) ==
    RMul(RMul(RNeg(RSub(action_loss, RMul(entropy_coef, entropy))), RInt(n_steps)),
         RInt(n_envs))

\* action_loss + self.value_loss_coef * value_loss - self.entropy_coef * entropy
CombinedLoss(action_loss, vloss, entropy, value_loss_coef, entropy_coef) ==
    RSub(RAdd(action_loss, RMul(value_loss_coef, vloss)),
         RMul(entropy_coef, entropy))

\* --- inputs of ACER.calculate_losses ----------------------------------------
\* rows of action probabilities over two actions, and the taken action
AlProbCases == <<
    [row |-> Vec2(Rat(1, 2), Rat(1, 2)), action |-> 0],
    [row |-> Vec2(Rat(1, 4), Rat(3, 4)), action |-> 1],
    [row |-> Vec2(Rat(3, 4), Rat(1, 4)), action |-> 1] >>

AlValueLossCoefs == { RZero, Rat(1, 2), ROne, RInt(2) }

AlImportanceCs == { Rat(7, 4), RInt(10) }

AlProbCase(shift, j) == AlProbCases[((shift + j) % Len(AlProbCases)) + 1]

\* action_probs and selected_probs = tf.gather_nd(action_probs, action_indices)
\* as update_gradients passes them, for n samples
AlInputsOf(n) ==
    { [ trust_region |-> tr, value_loss_coef |-> vlc, entropy_coef |-> Rat(1, 100),
        importance_c |-> c, epsilon |-> Rat(1, 4),
        action_probs |-> [j \in 0..(n - 1) |-> AlProbCase(shift, j).row],
        selected_probs |-> [j \in 0..(n - 1) |->
                              AlProbCase(shift, j).row[AlProbCase(shift, j).action]] ] :
        tr \in BOOLEAN, vlc \in AlValueLossCoefs, c \in AlImportanceCs,
        shift \in 0..1 }

AlIdle ==
    /\ al_in = << >>
    /\ al_pc = "idle"
    /\ al_entropy = RZero
    /\ al_weight = << >>
    /\ al_action_loss = RZero
    /\ al_value_loss = RZero
    /\ al_out = << >>

\* update_gradients, lines 328-338: calculate_losses receives the returns of
\* calculate_returns together with the values, importance ratios and critic
\* logits calculate_returns was given.
AlInit ==
    /\ AcerInit
    /\ acer_in.gamma = Rat(1, 2)
    /\ acer_in.values[acer_in.n_steps] = AcerBootValues[1]
    /\ al_in \in AlInputsOf(acer_in.n_envs * acer_in.n_steps)
    /\ al_pc = "entry"
    /\ al_entropy = RZero
    /\ al_weight = << >>
    /\ al_action_loss = RZero
    /\ al_value_loss = RZero
    /\ al_out = << >>

\* lines 229-257
CalculateLosses ==
    /\ al_pc = "entry"
    /\ acer_pc = "done"
    /\ LET n == acer_in.n_envs * acer_in.n_steps
           entropy == AcerEntropy(al_in.action_probs, al_in.epsilon)
           values == ClipLastStep(acer_in.values, acer_in.n_envs, acer_in.n_steps)
           adv == [j \in 0..(n - 1) |-> RSub(acer_out[j], values[j])]
           weight == [j \in 0..(n - 1) |->
                        ActorGainWeight(al_in.importance_c, acer_in.selected_importance[j])]
           action_loss == RNeg(Mean([j \in 0..(n - 1) |->
                        ActionGain(al_in.selected_probs[j], al_in.epsilon, adv[j], weight[j])]))
           vloss == AcerValueLoss(acer_out, acer_in.selected_critic_logits,
                                  al_in.value_loss_coef)
       IN  /\ al_entropy' = entropy
           /\ al_weight' = weight
           /\ al_action_loss' = action_loss
           /\ al_value_loss' = vloss
           /\ al_out' = IF al_in.trust_region
                        THEN << TrustRegionLoss(action_loss, entropy, al_in.entropy_coef,
                                                acer_in.n_steps, acer_in.n_envs), vloss >>
                        ELSE << CombinedLoss(action_loss, vloss, entropy,
                                             al_in.value_loss_coef, al_in.entropy_coef) >>
    /\ al_pc' = "done"
    /\ UNCHANGED <<al_in, alFrame>>

AlNext == AcerEnter \/ AcerLoop \/ AcerReturn \/ CalculateLosses

\* ------------------------------------------------------------------------
\* ACER.__init__ (replay stores), ACER.store_batch, ACER.update_avg_weights,
\* ACER.update_gradients (gradient step) and ACER.train_step   (src/acer.py)
\*
\* train_step is a tf.function.  Its Python body runs once, when the first
\* call traces it: the `if` of lines 359-362 and np.random.poisson of line
\* 363 are evaluated then, and the loop is unrolled into the graph.  Every
\* call executes that graph.  Inside the graph an op waits for the ops whose
\* outputs it consumes and for earlier ops on the same variable;
\* numpy_function ops touch no variable and are kept in program order among
\* themselves only.  update_avg_weights is a numpy_function without inputs
\* (line 344), so nothing orders it after apply_gradients and ema.apply.
\* ------------------------------------------------------------------------
\* buffer_max_size // self.n_envs
\* variant: every store gets the total size
StoreMaxSizeTotal(buffer_max_size, n_envs) == buffer_max_size
StoreMaxSize(buffer_max_size, n_envs) == buffer_max_size \div n_envs

\* buffer_initial_size // self.n_envs
StoreInitialSize(buffer_initial_size, n_envs) == buffer_initial_size \div n_envs

\* ReplayBuffer.append: the entry is added at the end, and the oldest entries
\* are dropped while the store holds more than max_size
StoreAppend(store, entry, max_size) ==
    LET all == Append(store, entry)
    IN  IF Len(all) <= max_size THEN all
        ELSE SubSeq(all, Len(all) - max_size + 1, Len(all))

\* the part of actor i in the batch get_batch collected at its t-th call:
\* [item[i] for item in batch]
EnvOutputs(t, i) == [batch |-> t, actor |-> i]

\* for i in range(self.n_envs): self.buffers[i].append(env_outputs)
\* variant: only the first store receives its part
StoreBatchFirst(bufs, t, n_envs, max_size) ==
    [i \in 0..(n_envs - 1) |->
        IF i = 0 THEN StoreAppend(bufs[i], EnvOutputs(t, i), max_size) ELSE bufs[i]]
StoreBatch(bufs, t, n_envs, max_size) ==
    [i \in 0..(n_envs - 1) |-> StoreAppend(bufs[i], EnvOutputs(t, i), max_size)]

\* len(self.buffers[0]) >= self.buffers[0].initial_size
\* variant: no readiness check
StoreReadyAlways(occupancy, initial_size) == TRUE
StoreReady(occupancy, initial_size) == occupancy >= initial_size

\* self.replay_ratio > 0 and len(self.buffers[0]) >= self.buffers[0].initial_size
ReplayCondition(replay_ratio, bufs, initial_size) ==
    replay_ratio > 0 /\ StoreReady(Len(bufs[0]), initial_size)

\* what np.random.poisson(self.replay_ratio) can return
PoissonDraws == 0..MaxReplays

\* tf.train.ExponentialMovingAverage: average = decay*average + (1-decay)*variable
EmaApply(decay, average, variable) ==
    RAdd(RMul(decay, average), RMul(RSub(ROne, decay), variable))

\* optimizer.apply_gradients: the weights move by one gradient step
GradientStep(w) == RAdd(w, ROne)

\* numpy_function ops of one graph run, in program order: get_batch,
\* update_avg_weights of the fresh update, then concat_buffer_samples and
\* update_avg_weights of every replay update
PyFuncCount(k) == 2 + 2 * k
UpdateCount(k) == 1 + k

\* --- configurations of ACER.__init__ ----------------------------------------
BufferMaxSizes == { MaxEnvs, 2 * MaxEnvs + 1 }
BufferInitialSizes == { 0, 1, MaxEnvs, 2 * MaxEnvs }
ReplayRatios == { 0, 4 }

TsConfigs ==
    { [ n_envs |-> ne, buffer_max_size |-> bm, buffer_initial_size |-> bi,
        max_size |-> StoreMaxSize(bm, ne), initial_size |-> StoreInitialSize(bi, ne),
        replay_ratio |-> rr, ema_alpha |-> Rat(1, 2) ] :
        ne \in 1..MaxEnvs, bm \in BufferMaxSizes, bi \in BufferInitialSizes,
        rr \in ReplayRatios }

TsIdle ==
    /\ ts_cfg = << >>
    /\ ts_pc = "idle"
    /\ ts_iter = 0
    /\ buffers = << >>
    /\ appends = 0
    /\ weights = RZero
    /\ ema_avg = RZero
    /\ avg_weights = RZero
    /\ graph = << >>
    /\ ts_drawn = FALSE
    /\ py_done = 0
    /\ fwd_done = 0
    /\ apply_done = 0
    /\ ema_done = 0
    /\ sample_occ = << >>

\* lines 45-57: empty stores; the averages start from the model's weights,
\* the cloned network has weights of its own
TsInit ==
    /\ ts_cfg \in TsConfigs
    /\ ts_pc = "call"
    /\ ts_iter = 0
    /\ buffers = [i \in 0..(ts_cfg.n_envs - 1) |-> << >>]
    /\ appends = 0
    /\ weights = RZero
    /\ ema_avg = RZero
    /\ avg_weights = RInt(-1)
    /\ graph = << >>
    /\ ts_drawn = FALSE
    /\ py_done = 0
    /\ fwd_done = 0
    /\ apply_done = 0
    /\ ema_done = 0
    /\ sample_occ = << >>

\* lines 346-369: a call of train_step.  The first call runs the Python body
\* to build the graph; every call then starts the graph.
TrainStepCall ==
    /\ ts_pc = "call"
    /\ ts_iter < MaxIterations
    /\ IF graph = << >>
       THEN IF ReplayCondition(ts_cfg.replay_ratio, buffers, ts_cfg.initial_size)
            THEN /\ \E k \in PoissonDraws : graph' = [k |-> k]
                 /\ ts_drawn' = TRUE
            ELSE /\ graph' = [k |-> 0]
                 /\ ts_drawn' = FALSE
       ELSE /\ graph' = graph
            /\ ts_drawn' = FALSE
    /\ ts_pc' = "run"
    /\ ts_iter' = ts_iter + 1
    /\ py_done' = 0
    /\ fwd_done' = 0
    /\ apply_done' = 0
    /\ ema_done' = 0
    /\ sample_occ' = << >>
    /\ UNCHANGED <<ts_cfg, buffers, appends, weights, ema_avg, avg_weights, tsFrame>>

\* line 355, lines 149-173 and 134-147: the get_batch op collects a batch and
\* stores every actor's part of it
GetBatch ==
    /\ ts_pc = "run"
    /\ py_done = 0
    /\ buffers' = StoreBatch(buffers, appends + 1, ts_cfg.n_envs, ts_cfg.max_size)
    /\ appends' = appends + 1
    /\ py_done' = 1
    /\ UNCHANGED <<ts_cfg, ts_pc, ts_iter, weights, ema_avg, avg_weights, graph, ts_drawn,
                   fwd_done, apply_done, ema_done, sample_occ, tsFrame>>

\* lines 364-368: the concat_buffer_samples op of a replay update draws one
\* stored entry of every actor (a store it draws from holds an entry); the
\* drawn transitions feed the forward pass and are not kept in the state
ConcatBufferSamples ==
    /\ ts_pc = "run"
    /\ py_done >= 2
    /\ py_done % 2 = 0
    /\ py_done < PyFuncCount(graph.k)
    /\ \A i \in 0..(ts_cfg.n_envs - 1) : buffers[i] # << >>
    /\ sample_occ' = [i \in 0..(ts_cfg.n_envs - 1) |-> Len(buffers[i])]
    /\ py_done' = py_done + 1
    /\ UNCHANGED <<ts_cfg, ts_pc, ts_iter, buffers, appends, weights, ema_avg, avg_weights,
                   graph, ts_drawn, fwd_done, apply_done, ema_done, tsFrame>>

\* lines 312-341: forward pass, losses and gradients of one update; it needs
\* its batch and the weights the previous update wrote
Forward ==
    /\ ts_pc = "run"
    /\ fwd_done < UpdateCount(graph.k)
    /\ py_done > 2 * fwd_done
    /\ apply_done = fwd_done
    /\ fwd_done' = fwd_done + 1
    /\ UNCHANGED <<ts_cfg, ts_pc, ts_iter, buffers, appends, weights, ema_avg, avg_weights,
                   graph, ts_drawn, py_done, apply_done, ema_done, sample_occ, tsFrame>>

\* line 342: writes the weights, after every earlier read of them
ApplyGradients ==
    /\ ts_pc = "run"
    /\ apply_done < fwd_done
    /\ ema_done = apply_done
    /\ weights' = GradientStep(weights)
    /\ apply_done' = apply_done + 1
    /\ UNCHANGED <<ts_cfg, ts_pc, ts_iter, buffers, appends, ema_avg, avg_weights,
                   graph, ts_drawn, py_done, fwd_done, ema_done, sample_occ, tsFrame>>

\* line 343: reads the weights the update wrote
EmaApplyOp ==
    /\ ts_pc = "run"
    /\ ema_done < apply_done
    /\ ema_avg' = EmaApply(ts_cfg.ema_alpha, ema_avg, weights)
    /\ ema_done' = ema_done + 1
    /\ UNCHANGED <<ts_cfg, ts_pc, ts_iter, buffers, appends, weights, avg_weights,
                   graph, ts_drawn, py_done, fwd_done, apply_done, sample_occ, tsFrame>>

\* line 344 and lines 121-132: the update_avg_weights op copies the averages,
\* as they are when it runs, into the average network
UpdateAvgWeights ==
    /\ ts_pc = "run"
    /\ py_done % 2 = 1
    /\ py_done < PyFuncCount(graph.k)
    /\ avg_weights' = ema_avg
    /\ py_done' = py_done + 1
    /\ UNCHANGED <<ts_cfg, ts_pc, ts_iter, buffers, appends, weights, ema_avg,
                   graph, ts_drawn, fwd_done, apply_done, ema_done, sample_occ, tsFrame>>

\* the graph has run: train_step returns
TrainStepReturn ==
    /\ ts_pc = "run"
    /\ py_done = PyFuncCount(graph.k)
    /\ ema_done = UpdateCount(graph.k)
    /\ ts_pc' = "call"
    /\ UNCHANGED <<ts_cfg, ts_iter, buffers, appends, weights, ema_avg, avg_weights,
                   graph, ts_drawn, py_done, fwd_done, apply_done, ema_done, sample_occ,
                   tsFrame>>

TsNext ==
    \/ TrainStepCall
    \/ GetBatch
    \/ ConcatBufferSamples
    \/ Forward
    \/ ApplyGradients
    \/ EmaApplyOp
    \/ UpdateAvgWeights
    \/ TrainStepReturn

\* ------------------------------------------------------------------------
\* ACER.get_batch (layout), ACER.flat_to_steps, ACER.clip_last_step and the
\* hand-over to ACER.calculate_returns   (src/acer.py)
\* ------------------------------------------------------------------------

\* np.asarray(item).swapaxes(0, 1): from [step][actor] to [actor][step]
SwapAxes(item, n_envs, steps) ==
    [e \in 0..(n_envs - 1) |-> [s \in 0..(steps - 1) |-> item[s][e]]]

\* item.reshape(-1, *item.shape[2:]) of an [actor][step] array: row-major
\* variant: column-major, the step varying slowest
ReshapeStepMajor(m, n_envs, steps) ==
    [j \in 0..(n_envs * steps - 1) |-> m[j % n_envs][j \div n_envs]]
Reshape(m, n_envs, steps) ==
    [j \in 0..(n_envs * steps - 1) |-> m[j \div steps][j % steps]]

\* lines 168-173 for one item of the batch
GetBatchItem(item, n_envs, steps) == Reshape(SwapAxes(item, n_envs, steps), n_envs, steps)

\* --- a collected rollout -------------------------------------------------------
\* what actor e met at step s, and the value of the state after its last step
FlRaw(s, e) == AcerCase(fl_in.base, e, s)
FlBoot(e) == AcerBoot(fl_in.boot, e)

\* per-step lists, as the trajectory collector hands them to get_batch: the
\* transitions, each with its (step, actor) position, and the states, one
\* more than the steps
FlTransitions ==
    [s \in 0..(fl_in.n_steps - 1) |-> [e \in 0..(fl_in.n_envs - 1) |->
        [at |-> <<s, e>>, data |-> FlRaw(s, e)]]]
FlStates ==
    [s \in 0..fl_in.n_steps |-> [e \in 0..(fl_in.n_envs - 1) |->
        [at |-> <<s, e>>,
         v |-> IF s < fl_in.n_steps THEN FlRaw(s, e).v ELSE FlBoot(e)]]]

FlInputsOf(ns) ==
    [ n_envs : 1..MaxEnvs, n_steps : {ns}, gamma : {Rat(1, 2)},
      boot : 1..Len(AcerBootValues), base : [0..(ns - 1) -> 1..Len(AcerStepCases)] ]

FlInputs == UNION { FlInputsOf(ns) : ns \in 1..MaxSteps }

FlIdle ==
    /\ fl_in = << >>
    /\ fl_pc = "idle"
    /\ fl_batch = << >>
    /\ fl_steps = << >>
    /\ fl_restacked = << >>
    /\ fl_clipped = << >>

FlInit ==
    /\ fl_in \in FlInputs
    /\ fl_pc = "entry"
    /\ fl_batch = << >>
    /\ fl_steps = << >>
    /\ fl_restacked = << >>
    /\ fl_clipped = << >>
    /\ AcerIdle

\* lines 167-173: every item is made actor-major and flattened
FlGetBatch ==
    /\ fl_pc = "entry"
    /\ fl_batch' = [ transitions |-> GetBatchItem(FlTransitions, fl_in.n_envs, fl_in.n_steps),
                     states |-> GetBatchItem(FlStates, fl_in.n_envs, fl_in.n_steps + 1) ]
    /\ fl_pc' = "batch"
    /\ UNCHANGED <<fl_in, fl_steps, fl_restacked, fl_clipped, flFrame>>

\* lines 76-89 on a tensor of n_envs * n_steps entries
FlFlatToSteps ==
    /\ fl_pc = "batch"
    /\ fl_steps' = FlatToSteps(fl_batch.transitions, fl_in.n_envs, fl_in.n_steps)
    /\ fl_pc' = "steps"
    /\ UNCHANGED <<fl_in, fl_batch, fl_restacked, fl_clipped, flFrame>>

\* tf.reshape(tf.stack(ts, 1), (-1, ...)) on all the steps of flat_to_steps
FlStack ==
    /\ fl_pc = "steps"
    /\ fl_restacked' = StackSteps(fl_steps, fl_in.n_envs, fl_in.n_steps)
    /\ fl_pc' = "stacked"
    /\ UNCHANGED <<fl_in, fl_batch, fl_steps, fl_clipped, flFrame>>

\* lines 91-101 on a tensor of n_envs * (n_steps + 1) entries
FlClipLastStep ==
    /\ fl_pc = "stacked"
    /\ fl_clipped' = ClipLastStep(fl_batch.states, fl_in.n_envs, fl_in.n_steps)
    /\ fl_pc' = "clipped"
    /\ UNCHANGED <<fl_in, fl_batch, fl_steps, fl_restacked, flFrame>>

\* update_gradients, lines 316-330: the model outputs keep the order of the
\* flat states and transitions they are computed from, and calculate_returns
\* is called on them
FlCallReturns ==
    /\ fl_pc = "clipped"
    /\ acer_pc = "idle"
    /\ acer_in' =
        [ n_envs |-> fl_in.n_envs, n_steps |-> fl_in.n_steps, gamma |-> fl_in.gamma,
          rewards |-> [j \in DOMAIN fl_batch.transitions |-> fl_batch.transitions[j].data.r],
          dones |-> [j \in DOMAIN fl_batch.transitions |-> fl_batch.transitions[j].data.d],
          selected_critic_logits |->
              [j \in DOMAIN fl_batch.transitions |-> fl_batch.transitions[j].data.q],
          selected_importance |->
              [j \in DOMAIN fl_batch.transitions |-> fl_batch.transitions[j].data.imp],
          values |-> [j \in DOMAIN fl_batch.states |-> fl_batch.states[j].v] ]
    /\ acer_pc' = "entry"
    /\ fl_pc' = "returns"
    /\ UNCHANGED <<fl_in, fl_batch, fl_steps, fl_restacked, fl_clipped,
                   acer_i, current_return, returns, acer_out, flCallFrame>>

FlNext ==
    \/ FlGetBatch
    \/ FlFlatToSteps
    \/ FlStack
    \/ FlClipLastStep
    \/ FlCallReturns
    \/ AcerEnter
    \/ AcerLoop
    \/ AcerReturn

\* ------------------------------------------------------------------------
\* ACER.add_grads and the end of ACER.calculate_grads / ACER.update_gradients
\* (src/acer.py)
\* ------------------------------------------------------------------------
\* the None that tape.gradient returns for a variable the target does not
\* depend on; a gradient is a rational
None == << >>

\* assert g1 is not None or g2 is not None, 'Gradients are None'
AddGradsAssertion(g1, g2) == g1 # None \/ g2 # None

\* lines 115-119
\* variant: the sum is never formed
AddGradsFirst(g1, g2) == IF g1 # None THEN g1 ELSE g2
AddGrads(g1, g2) ==
    IF g1 # None /\ g2 # None THEN RAdd(g1, g2)
    ELSE IF g1 # None THEN g1
    ELSE g2

\* --- inputs --------------------------------------------------------------------
AgGradients == { None, ROne, Rat(-1, 2) }

AgInputs == UNION { [1..n -> AgGradients \X AgGradients] : n \in 1..MaxParams }

AgIdle ==
    /\ ag_in = << >>
    /\ ag_pc = "idle"
    /\ ag_i = 0
    /\ ag_grads = << >>
    /\ ag_error = ""
    /\ ag_steps = 0
    /\ ag_ema_updates = 0

AgInit ==
    /\ ag_in \in AgInputs
    /\ ag_pc = "grads"
    /\ ag_i = 0
    /\ ag_grads = << >>
    /\ ag_error = ""
    /\ ag_steps = 0
    /\ ag_ema_updates = 0

\* line 290, lines 103-119: add_grads on the next pair; the assertion ends
\* calculate_grads and update_gradients
AddGradsCall ==
    /\ ag_pc = "grads"
    /\ ag_i < Len(ag_in)
    /\ LET g1 == ag_in[ag_i + 1][1]
           g2 == ag_in[ag_i + 1][2]
       IN  IF AddGradsAssertion(g1, g2)
           THEN /\ ag_grads' = Append(ag_grads, AddGrads(g1, g2))
                /\ ag_i' = ag_i + 1
                /\ UNCHANGED <<ag_pc, ag_error>>
           ELSE /\ ag_pc' = "raised"
                /\ ag_error' = "Gradients are None"
                /\ UNCHANGED <<ag_grads, ag_i>>
    /\ UNCHANGED <<ag_in, ag_steps, ag_ema_updates, agFrame>>

\* lines 339-344: calculate_grads has returned; the gradients are applied, the
\* moving average updated and copied
AgApplyGradients ==
    /\ ag_pc = "grads"
    /\ ag_i = Len(ag_in)
    /\ ag_steps' = ag_steps + 1
    /\ ag_ema_updates' = ag_ema_updates + 1
    /\ ag_pc' = "done"
    /\ UNCHANGED <<ag_in, ag_i, ag_grads, ag_error, agFrame>>

AgNext == AddGradsCall \/ AgApplyGradients

\* ------------------------------------------------------------------------
\* ModelReader.create_dense / ModelReader.build_model   (src/xagents/utils/common.py)
\*
\* A section is [kind, units]; units = 0 stands for a section without a
\* `units` entry (parser.get returns None, or an empty string), a positive
\* number for the declared entry.
\* ------------------------------------------------------------------------

\* if not units:
NoUnits(section) == section.units = 0

\* self.output_count += 1
\* variant: the counter is not advanced
OutputCountSame(count) == count
OutputCountNext(count) == count + 1

\* assert len(self.output_units) > self.output_count
CreateDenseAssertion(output_units, count) == Len(output_units) > count

\* units = self.output_units[self.output_count]   (0-based index)
OutputUnit(output_units, count) == output_units[count + 1]

\* --- inputs --------------------------------------------------------------------
MrSectionCases == {
    [kind |-> "convolutional", units |-> 0],
    [kind |-> "flatten", units |-> 0],
    [kind |-> "dense", units |-> 4],
    [kind |-> "dense", units |-> 0] }

MrOutputUnits == { << >>, <<6>>, <<6, 1>> }

MrInputs ==
    UNION { [ sections : [1..n -> MrSectionCases], output_units : MrOutputUnits ] :
            n \in 1..MaxSections }

MrIdle ==
    /\ mr_in = << >>
    /\ mr_pc = "idle"
    /\ mr_sec = 0
    /\ output_count = 0
    /\ mr_layers = << >>
    /\ mr_error = ""
    /\ mr_calls = 0
    /\ mr_builds = 0
    /\ mr_first = << >>

\* ModelReader.__init__, lines 120-139
MrInit ==
    /\ mr_in \in MrInputs
    /\ mr_pc = "call"
    /\ mr_sec = 0
    /\ output_count = 0
    /\ mr_layers = << >>
    /\ mr_error = ""
    /\ mr_calls = 0
    /\ mr_builds = 0
    /\ mr_first = << >>

\* lines 208-210: a call of build_model, on a new reader or after an earlier
\* call has returned or raised
BuildModelEnter ==
    /\ mr_pc \in {"call", "raised"}
    /\ mr_calls < MaxBuilds
    /\ mr_pc' = "loop"
    /\ mr_sec' = 0
    /\ mr_layers' = << >>
    /\ mr_error' = ""
    /\ mr_calls' = mr_calls + 1
    /\ UNCHANGED <<mr_in, output_count, mr_builds, mr_first, mrFrame>>

\* lines 211-223 with create_dense, lines 188-198: one section of the loop
BuildModelSection ==
    /\ mr_pc = "loop"
    /\ mr_sec < Len(mr_in.sections)
    /\ LET section == mr_in.sections[mr_sec + 1]
       IN  IF section.kind = "dense" /\ NoUnits(section)
           THEN IF CreateDenseAssertion(mr_in.output_units, output_count)
                THEN /\ mr_layers' = Append(mr_layers,
                            [kind |-> "dense",
                             units |-> OutputUnit(mr_in.output_units, output_count)])
                     /\ output_count' = OutputCountNext(output_count)
                     /\ mr_sec' = mr_sec + 1
                     /\ UNCHANGED <<mr_pc, mr_error>>
                ELSE /\ mr_pc' = "raised"
                     /\ mr_error' = "Output units given are less than dense layers required"
                     /\ UNCHANGED <<mr_layers, output_count, mr_sec>>
           ELSE /\ mr_layers' = Append(mr_layers, section)
                /\ mr_sec' = mr_sec + 1
                /\ UNCHANGED <<mr_pc, mr_error, output_count>>
    /\ UNCHANGED <<mr_in, mr_calls, mr_builds, mr_first, mrFrame>>

\* lines 224-227: after the loop, self.output_count = 0 and the model is made
BuildModelReturn ==
    /\ mr_pc = "loop"
    /\ mr_sec = Len(mr_in.sections)
    /\ output_count' = 0
    /\ mr_builds' = mr_builds + 1
    /\ mr_first' = IF mr_builds = 0 THEN mr_layers ELSE mr_first
    /\ mr_pc' = "call"
    /\ UNCHANGED <<mr_in, mr_sec, mr_layers, mr_error, mr_calls, mrFrame>>

MrNext == BuildModelEnter \/ BuildModelSection \/ BuildModelReturn

\* ------------------------------------------------------------------------
\* AtariPreprocessor   (src/xagents/utils/common.py)
\*
\* A frame is a vector of pixel intensities indexed from 0.  The wrapped
\* environment is free in what it returns: every self.env.step yields some
\* frame, some reward and some done flag.
\* ------------------------------------------------------------------------
\* assert frame_skips > 1, 'frame_skips must be >= 1'
FrameSkipsAssertion(frame_skips) == frame_skips > 1

\* deque(maxlen=n).append(x): x is added on the right and, when the deque is
\* full, the leftmost element is discarded
DequeAppend(buffer, x, maxlen) ==
    IF maxlen = 0 THEN << >>
    ELSE IF Len(buffer) < maxlen THEN Append(buffer, x)
    ELSE Append(Tail(buffer), x)

\* np.max(np.stack(self.observation_buffer), axis=0)
RECURSIVE MaxOverBuffer(_, _)
MaxOverBuffer(buffer, p) ==
    IF Len(buffer) = 1 THEN buffer[1][p]
    ELSE LET rest == MaxOverBuffer(Tail(buffer), p)
         IN  IF buffer[1][p] >= rest THEN buffer[1][p] ELSE rest

\* variant: the newest frame in place of the maximum
NewestFrame(buffer) == buffer[Len(buffer)]
MaxFrame(buffer) == [p \in DOMAIN buffer[1] |-> MaxOverBuffer(buffer, p)]

\* process_frame: the frame is taken as grayscale and of the target size
\* already, so cv2.cvtColor and cv2.resize keep its intensities; they are
\* divided by 255 when scale_frames is set, and np.expand_dims(frame, -1)
\* puts every pixel into an axis of its own
ProcessFrame(frame, scale) ==
    [p \in DOMAIN frame |-> << IF scale THEN Rat(frame[p], 255) ELSE RInt(frame[p]) >>]

\* --- inputs of AtariPreprocessor ---------------------------------------------
ApPixels == { 0, 255 }
ApFrames == [0..1 -> ApPixels]
ApRewards == { -1, 2 }

ApInputs ==
    { [ frame_skips |-> fs, state_buffer_size |-> sb, scale_frames |-> sc ] :
        fs \in (-1)..MaxSkips, sb \in 1..MaxBufferSize, sc \in BOOLEAN }

ApIdle ==
    /\ ap_in = << >>
    /\ ap_pc = "idle"
    /\ skips = 0
    /\ observation_buffer = << >>
    /\ ap_maxlen = 0
    /\ scale_frames = FALSE
    /\ ap_i = 0
    /\ total_reward = 0
    /\ ap_done = None
    /\ ap_max_frame = None
    /\ ap_inner = << >>
    /\ ap_ret = << >>
    /\ ap_calls = 0
    /\ ap_error = ""

\* AtariPreprocessor(env, frame_skips, resize_shape, state_buffer_size,
\* scale_frames) is about to run
ApInit ==
    /\ ap_in \in ApInputs
    /\ ap_pc = "new"
    /\ skips = 0
    /\ observation_buffer = << >>
    /\ ap_maxlen = 0
    /\ scale_frames = FALSE
    /\ ap_i = 0
    /\ total_reward = 0
    /\ ap_done = None
    /\ ap_max_frame = None
    /\ ap_inner = << >>
    /\ ap_ret = << >>
    /\ ap_calls = 0
    /\ ap_error = ""

\* lines 34-40: __init__
AtariPreprocessorNew ==
    /\ ap_pc = "new"
    /\ IF FrameSkipsAssertion(ap_in.frame_skips)
       THEN /\ skips' = ap_in.frame_skips
            /\ ap_maxlen' = ap_in.state_buffer_size
            /\ scale_frames' = ap_in.scale_frames
            /\ ap_pc' = "ready"
            /\ ap_error' = ""
       ELSE /\ ap_error' = "frame_skips must be >= 1"
            /\ ap_pc' = "raised"
            /\ UNCHANGED <<skips, ap_maxlen, scale_frames>>
    /\ UNCHANGED <<ap_in, observation_buffer, ap_i, total_reward, ap_done, ap_max_frame,
                   ap_inner, ap_ret, ap_calls, apFrame>>

\* lines 87-90: reset
AtariReset ==
    /\ ap_pc = "ready"
    /\ ap_calls < MaxEnvCalls
    /\ \E observation \in ApFrames :
          /\ observation_buffer' = DequeAppend(<< >>, observation, ap_maxlen)
          /\ ap_ret' = [call |-> "reset", observation |-> observation,
                        frame |-> ProcessFrame(observation, scale_frames)]
    /\ ap_calls' = ap_calls + 1
    /\ UNCHANGED <<ap_in, ap_pc, skips, ap_maxlen, scale_frames, ap_i, total_reward, ap_done,
                   ap_max_frame, ap_inner, ap_error, apFrame>>

\* lines 66-68: step is entered
AtariStepEnter ==
    /\ ap_pc = "ready"
    /\ ap_calls < MaxEnvCalls
    /\ ap_pc' = "loop"
    /\ ap_i' = 0
    /\ total_reward' = 0
    /\ ap_done' = None
    /\ ap_max_frame' = None
    /\ ap_inner' = << >>
    /\ ap_calls' = ap_calls + 1
    /\ UNCHANGED <<ap_in, skips, observation_buffer, ap_maxlen, scale_frames, ap_ret,
                   ap_error, apFrame>>

\* lines 69-75: one iteration of  for _ in range(self.skips); `break` leaves
\* the loop as its exhaustion does
AtariStepLoop ==
    /\ ap_pc = "loop"
    /\ ap_i < skips
    /\ \E state \in ApFrames, reward \in ApRewards, done \in BOOLEAN :
          LET buffer == DequeAppend(observation_buffer, state, ap_maxlen)
          IN  /\ observation_buffer' = buffer
              /\ ap_max_frame' = MaxFrame(buffer)
              /\ total_reward' = total_reward + reward
              /\ ap_done' = done
              /\ ap_inner' = Append(ap_inner, [reward |-> reward, done |-> done])
              /\ ap_pc' = IF done \/ ap_i + 1 = skips THEN "return" ELSE "loop"
    /\ ap_i' = ap_i + 1
    /\ UNCHANGED <<ap_in, skips, ap_maxlen, scale_frames, ap_ret, ap_calls, ap_error,
                   apFrame>>

\* line 76: return self.process_frame(max_frame), total_reward, done, info
AtariStepReturn ==
    /\ ap_pc = "return"
    /\ ap_ret' = [call |-> "step", frame |-> ProcessFrame(ap_max_frame, scale_frames),
                  reward |-> total_reward, done |-> ap_done]
    /\ ap_pc' = "ready"
    /\ UNCHANGED <<ap_in, skips, observation_buffer, ap_maxlen, scale_frames, ap_i,
                   total_reward, ap_done, ap_max_frame, ap_inner, ap_calls, ap_error,
                   apFrame>>

ApNext ==
    \/ AtariPreprocessorNew
    \/ AtariReset
    \/ AtariStepEnter
    \/ AtariStepLoop
    \/ AtariStepReturn

\* ------------------------------------------------------------------------
\* Executor   (src/xagents/cli.py)
\*
\* argv is a sequence of strings.  What the code asks of a string ('--' in
\* it, a leading '-', int(...)) is tabulated for the strings the inputs use.
\* ------------------------------------------------------------------------
\* None in an attribute that otherwise holds a string: a string no argv holds
Unset == "<None>"

\* keys of xagents.commands and xagents.agents that the code names
Commands == { "train", "tune" }
Agents == { "a2c", "acer" }

\* issubclass(xagents.agents[agent_id]['agent'], OffPolicy) or agent_id == 'acer'
IsOffPolicy(a) == a = "acer"

\* one option of a cli_args dictionary, as add_args hands it to add_argument
Option(type, default) == [type |-> type, default |-> default]

\* non_agent_args, off_policy_args, agent_args: the options execute reads
NonAgentArgs ==
    [f \in {"--env", "--n-envs", "--lr"} |->
        IF f = "--env" THEN Option("str", None) ELSE Option("num", None)]
OffPolicyArgs ==
    [f \in {"--buffer-max-size", "--buffer-initial-size"} |-> Option("num", None)]
AgentArgs == [f \in {"--gamma", "--seed"} |-> Option("num", None)]

\* xagents.agents[agent_id]['module'].cli_args
ModuleArgs(a) ==
    IF a = "a2c"
    THEN [f \in {"--model", "--entropy-coef", "--value-loss-coef", "--grad-norm",
                 "--n-steps"} |->
            CASE f = "--model" -> Option("str", None)
              [] f = "--entropy-coef" -> Option("num", << Rat(1, 100) >>)
              [] f = "--value-loss-coef" -> Option("num", << Rat(1, 2) >>)
              [] f = "--grad-norm" -> Option("num", << Rat(1, 2) >>)
              [] f = "--n-steps" -> Option("num", << 5 >>)]
    ELSE IF a = "acer"
    THEN [f \in {"--model", "--ema-alpha", "--replay-ratio"} |->
            IF f = "--model" THEN Option("str", None) ELSE Option("num", None)]
    ELSE << >>

\* xagents.commands[command][0]
CommandArgs(c) ==
    IF c = "train"
    THEN [f \in {"--target-reward", "--max-steps"} |-> Option("num", None)]
    ELSE << >>

\* the union of two option tables (dict.update, parser.add_argument)
Merge(t1, t2) ==
    [f \in DOMAIN t2 \cup DOMAIN t1 |-> IF f \in DOMAIN t2 THEN t2[f] ELSE t1[f]]

\* --- strings ---------------------------------------------------------------
\* strings that start with '-': argparse takes them for options
FlagTokens ==
    DOMAIN NonAgentArgs \cup DOMAIN OffPolicyArgs \cup DOMAIN AgentArgs
        \cup DOMAIN ModuleArgs("a2c") \cup DOMAIN ModuleArgs("acer")
        \cup DOMAIN CommandArgs("train") \cup { "--unknown-flag" }
FlagLike(t) == t \in FlagTokens

\* '--' in t
DashedTokens == FlagTokens \cup { "a--b" }
HasDashes(t) == t \in DashedTokens

\* int(t) / float(t) succeeds
NumberTokens == { "0", "18" }
NumberOf(t) == IF t = "0" THEN 0 ELSE 18

\* the value argparse stores for string t given to an option of that type;
\* None stands for a conversion that fails
Convert(type, t) ==
    IF type = "str" THEN << t >>
    ELSE IF t \in NumberTokens THEN << NumberOf(t) >>
    ELSE None

\* --- argparse.ArgumentParser.parse_known_args ------------------------------
\* The parser has the options of `table`, every one taking one value, and no
\* positional argument.  acc.ns is the namespace, acc.extra the positions of
\* the strings left over, acc.ok is FALSE once the parser has called
\* parser.error (an option without its value, a value of the wrong type).
RECURSIVE ScanArgs(_, _, _, _)
ScanArgs(table, argv, i, acc) ==
    IF ~acc.ok \/ i > Len(argv) THEN acc
    ELSE IF argv[i] \in DOMAIN table
    THEN IF i + 1 > Len(argv) \/ FlagLike(argv[i + 1])
         THEN [acc EXCEPT !.ok = FALSE]
         ELSE LET v == Convert(table[argv[i]].type, argv[i + 1])
              IN  IF v = None THEN [acc EXCEPT !.ok = FALSE]
                  ELSE ScanArgs(table, argv, i + 2, [acc EXCEPT !.ns[argv[i]] = v])
    ELSE ScanArgs(table, argv, i + 1, [acc EXCEPT !.extra = @ \cup {i}])

ParserParseKnownArgs(table, argv) ==
    ScanArgs(table, argv, 1,
             [ns |-> [f \in DOMAIN table |-> table[f].default], extra |-> {}, ok |-> TRUE])

\* set(extra): the strings left over
ExtraStrings(argv, extra) == { argv[i] : i \in extra }

\* --- Executor.maybe_create_agent -------------------------------------------
NoOutput == << >>

\* what display_commands prints: the base menu and one section per title
Display(sections) == [base |-> TRUE, sections |-> sections]
Section(title, to_display) == [title |-> title, flags |-> DOMAIN to_display]

\* to_display when total entries of argv have been looked at
\* variant: nothing but the general options
ToDisplayGeneral(argv, total) == NonAgentArgs
ToDisplay(argv, total) ==
    LET general == Merge(Merge(NonAgentArgs, AgentArgs), CommandArgs(argv[1]))
        module == IF total >= 2 THEN Merge(general, ModuleArgs(argv[2])) ELSE general
    IN  IF total = 2 /\ IsOffPolicy(argv[2]) THEN Merge(module, OffPolicyArgs)
        ELSE module

\* assert command in xagents.commands fails
InvalidCommand(argv) == Len(argv) >= 1 /\ argv[1] \notin Commands

\* assert agent_id in xagents.agents is reached and fails
\* variant: the agent is looked at for a two-entry argv only
InvalidAgentOfPair(argv) ==
    Len(argv) = 2 /\ argv[1] \in Commands /\ argv[2] \notin Agents
InvalidAgent(argv) ==
    Len(argv) >= 2 /\ argv[1] \in Commands /\ argv[2] \notin Agents

\* lines 123-148: the attributes, the output and the exception of one call
MaybeCreateAgent(argv, self) ==
    LET total == Len(argv)
        keep == [command |-> self.command, agent_id |-> self.agent_id]
    IN  IF total = 0
        THEN [self |-> keep, out |-> Display(<< >>), error |-> ""]
        ELSE IF InvalidCommand(argv)
        THEN [self |-> keep, out |-> NoOutput, error |-> "Invalid command"]
        ELSE IF total = 1
        THEN [self |-> keep, error |-> "",
              out |-> Display(<< Section(<< argv[1] >>, ToDisplay(argv, 1)) >>)]
        ELSE IF InvalidAgent(argv)
        THEN [self |-> keep, out |-> NoOutput, error |-> "Invalid agent"]
        ELSE IF total = 2
        THEN [self |-> keep, error |-> "",
              out |-> Display(<< Section(<< argv[1], argv[2] >>, ToDisplay(argv, 2)) >>)]
        ELSE [self |-> [command |-> argv[1], agent_id |-> argv[2]], out |-> NoOutput,
              error |-> ""]

\* --- Executor.parse_all_groups and Executor.parse_known_args ------------------
\* the options of general_parser, agent_parser and command_parser.  `tuning`
\* changes nargs of the options that carry hp_type; no table has one.
GeneralTable(a) ==
    IF IsOffPolicy(a) THEN Merge(OffPolicyArgs, NonAgentArgs) ELSE NonAgentArgs
AgentTable(a) == Merge(AgentArgs, ModuleArgs(a))
CommandTable(c) == CommandArgs(c)

\* lines 168-173: the strings all three parsers left over that hold '--' and
\* are neither the command nor the agent
UnknownFlags(argv, extra1, extra2, extra3, c, a) ==
    { t \in ExtraStrings(argv, extra1) \cap ExtraStrings(argv, extra2)
              \cap ExtraStrings(argv, extra3) :
        t \notin {c, a} /\ HasDashes(t) }

\* lines 151-176.  error is "SystemExit" when one of the parsers gave up.
ParseAllGroups(argv, c, a) ==
    LET p1 == ParserParseKnownArgs(GeneralTable(a), argv)
        p2 == ParserParseKnownArgs(AgentTable(a), argv)
        p3 == ParserParseKnownArgs(CommandTable(c), argv)
    IN  IF ~(p1.ok /\ p2.ok /\ p3.ok)
        THEN [error |-> "SystemExit", warning |-> {}, ret |-> << >>,
              extra |-> << >>]
        ELSE [error |-> "",
              warning |-> UnknownFlags(argv, p1.extra, p2.extra, p3.extra, c, a),
              ret |-> << p1.ns, p2.ns, p3.ns >>,
              extra |-> << p1.extra, p2.extra, p3.extra >>]

\* the truth value Python gives an option's value: None and 0 are false
Truthy(v) == v # None /\ v # << 0 >>

\* assert command_known.target_reward or command_known.max_steps
TrainAssertion(command_known) ==
    Truthy(command_known["--target-reward"]) \/ Truthy(command_known["--max-steps"])

\* lines 187-194
ParseKnownArgs(argv, c, a) ==
    LET groups == ParseAllGroups(argv, c, a)
    IN  IF groups.error # "" THEN groups
        ELSE IF c = "train" /\ ~TrainAssertion(groups.ret[3])
        THEN [groups EXCEPT !.error = "train requires --target-reward or --max-steps",
                            !.ret = << >>]
        ELSE [groups EXCEPT !.ret = << groups.ret[2], groups.ret[1], groups.ret[3] >>]

\* --- inputs of Executor ----------------------------------------------------
ExHeads == Commands \cup Agents \cup { "invalid" }

\* an option with its value, an option alone, a value alone
ExGroups ==
    { << "--env", "test-env" >>, << "--env", "a--b" >>, << "--model", "a--b" >>,
      << "--max-steps", "0" >>, << "--max-steps", "18" >>,
      << "--target-reward", "0" >>, << "--target-reward", "18" >>,
      << "--unknown-flag", "unknown-value" >>, << "--unknown-flag" >>,
      << "--env" >>, << "--max-steps", "test-env" >>, << "a--b" >> }

RECURSIVE ExRests(_)
ExRests(n) ==
    IF n = 0 THEN { << >> }
    ELSE ExRests(n - 1) \cup { r \o g : r \in ExRests(n - 1), g \in ExGroups }

ExShortArgvs ==
    { << >> } \cup { << h >> : h \in ExHeads } \cup { << h1, h2 >> : h1, h2 \in ExHeads }

ExArgvs ==
    ExShortArgvs
        \cup { << c, a >> \o r : c \in Commands, a \in Agents, r \in ExRests(MaxGroups) }
        \cup { << h1, h2, "--env", "test-env" >> : h1, h2 \in ExHeads }

ExIdle ==
    /\ ex_call = "idle"
    /\ ex_argv = << >>
    /\ ex_pre = << >>
    /\ command = Unset
    /\ agent_id = Unset
    /\ agent = Unset
    /\ ex_out = NoOutput
    /\ ex_error = ""
    /\ ex_warning = {}
    /\ ex_ret = << >>

\* lines 22-24: Executor()
ExInit ==
    /\ ex_call = ""
    /\ ex_argv = << >>
    /\ ex_pre = << >>
    /\ command = Unset
    /\ agent_id = Unset
    /\ agent = Unset
    /\ ex_out = NoOutput
    /\ ex_error = ""
    /\ ex_warning = {}
    /\ ex_ret = << >>

ExSelf == [command |-> command, agent_id |-> agent_id, agent |-> agent]

\* a call of maybe_create_agent(argv)
MaybeCreateAgentCall ==
    /\ ex_call = ""
    /\ \E argv \in ExArgvs :
          LET r == MaybeCreateAgent(argv, ExSelf)
          IN  /\ ex_argv' = argv
              /\ command' = r.self.command
              /\ agent_id' = r.self.agent_id
              /\ ex_out' = r.out
              /\ ex_error' = r.error
    /\ ex_call' = "maybe_create_agent"
    /\ ex_pre' = ExSelf
    /\ ex_warning' = {}
    /\ ex_ret' = << >>
    /\ UNCHANGED <<agent, exFrame>>

\* a call of parse_all_groups(argv, tuning); with no agent set,
\* xagents.agents[self.agent_id] raises KeyError
ParseAllGroupsCall ==
    /\ ex_call = ""
    /\ \E argv \in ExArgvs :
          LET r == ParseAllGroups(argv, command, agent_id)
          IN  /\ ex_argv' = argv
              /\ IF agent_id = Unset
                 THEN /\ ex_error' = "KeyError"
                      /\ ex_warning' = {}
                      /\ ex_ret' = << >>
                 ELSE /\ ex_error' = r.error
                      /\ ex_warning' = r.warning
                      /\ ex_ret' = r.ret
    /\ ex_call' = "parse_all_groups"
    /\ ex_pre' = ExSelf
    /\ ex_out' = NoOutput
    /\ UNCHANGED <<command, agent_id, agent, exFrame>>

\* a call of parse_known_args(argv)
ParseKnownArgsCall ==
    /\ ex_call = ""
    /\ \E argv \in ExArgvs :
          LET r == ParseKnownArgs(argv, command, agent_id)
          IN  /\ ex_argv' = argv
              /\ IF agent_id = Unset
                 THEN /\ ex_error' = "KeyError"
                      /\ ex_warning' = {}
                      /\ ex_ret' = << >>
                 ELSE /\ ex_error' = r.error
                      /\ ex_warning' = r.warning
                      /\ ex_ret' = r.ret
    /\ ex_call' = "parse_known_args"
    /\ ex_pre' = ExSelf
    /\ ex_out' = NoOutput
    /\ UNCHANGED <<command, agent_id, agent, exFrame>>

\* lines 206-261: a call of execute(argv).  The agent that lines 215-252 build
\* is represented by its agent id.
ExecuteCall ==
    /\ ex_call = ""
    /\ \E argv \in ExArgvs :
          LET m == MaybeCreateAgent(argv, ExSelf)
              all == ParseAllGroups(argv, m.self.command, m.self.agent_id)
              known == ParseKnownArgs(argv, m.self.command, m.self.agent_id)
          IN  /\ ex_argv' = argv
              /\ command' = m.self.command
              /\ agent_id' = m.self.agent_id
              /\ ex_out' = m.out
              /\ IF m.error # "" \/ m.self.agent_id = Unset
                 THEN /\ ex_error' = m.error
                      /\ ex_warning' = {}
                      /\ agent' = agent
                 ELSE IF m.self.command = "tune"
                 THEN /\ ex_error' = all.error
                      /\ ex_warning' = all.warning
                      /\ agent' = agent
                 ELSE /\ ex_error' = known.error
                      /\ ex_warning' = known.warning
                      /\ agent' = IF known.error = "" THEN m.self.agent_id ELSE agent
    /\ ex_call' = "execute"
    /\ ex_pre' = ExSelf
    /\ ex_ret' = << >>
    /\ UNCHANGED exFrame

\* the caller has looked at what the call produced and goes on; the Executor
\* keeps its attributes
ExCallDone ==
    /\ ex_call \notin {"", "idle"}
    /\ ex_call' = ""
    /\ ex_argv' = << >>
    /\ ex_pre' = << >>
    /\ ex_out' = NoOutput
    /\ ex_error' = ""
    /\ ex_warning' = {}
    /\ ex_ret' = << >>
    /\ UNCHANGED <<command, agent_id, agent, exFrame>>

ExNext ==
    \/ ExCallDone
    \/ MaybeCreateAgentCall
    \/ ParseAllGroupsCall
    \/ ParseKnownArgsCall
    \/ ExecuteCall

\* ------------------------------------------------------------------------
\* Specifications
\* ------------------------------------------------------------------------
InitAcerReturns == AcerInit /\ GaeIdle /\ TrIdle /\ PgIdle /\ EpIdle /\ AlIdle /\ TsIdle /\ FlIdle /\ AgIdle /\ MrIdle /\ ApIdle /\ ExIdle
SpecAcerReturns == InitAcerReturns /\ [][AcerNext]_vars

InitGae == GaeInit /\ AcerIdle /\ TrIdle /\ PgIdle /\ EpIdle /\ AlIdle /\ TsIdle /\ FlIdle /\ AgIdle /\ MrIdle /\ ApIdle /\ ExIdle
SpecGae == InitGae /\ [][GaeNext]_vars

InitTrustRegion == TrInit /\ AcerIdle /\ GaeIdle /\ PgIdle /\ EpIdle /\ AlIdle /\ TsIdle /\ FlIdle /\ AgIdle /\ MrIdle /\ ApIdle /\ ExIdle
SpecTrustRegion == InitTrustRegion /\ [][TrNext]_vars

InitPgLoss == PgInit /\ AcerIdle /\ GaeIdle /\ TrIdle /\ EpIdle /\ AlIdle /\ TsIdle /\ FlIdle /\ AgIdle /\ MrIdle /\ ApIdle /\ ExIdle
SpecPgLoss == InitPgLoss /\ [][PgNext]_vars

InitPpoEpochs == EpInit /\ AcerIdle /\ GaeIdle /\ TrIdle /\ PgIdle /\ AlIdle /\ TsIdle /\ FlIdle /\ AgIdle /\ MrIdle /\ ApIdle /\ ExIdle
SpecPpoEpochs == InitPpoEpochs /\ [][EpNext]_vars

InitAcerLosses == AlInit /\ GaeIdle /\ TrIdle /\ PgIdle /\ EpIdle /\ TsIdle /\ FlIdle /\ AgIdle /\ MrIdle /\ ApIdle /\ ExIdle
SpecAcerLosses == InitAcerLosses /\ [][AlNext]_vars

InitTrainStep == TsInit /\ AcerIdle /\ GaeIdle /\ TrIdle /\ PgIdle /\ EpIdle /\ AlIdle /\ FlIdle /\ AgIdle /\ MrIdle /\ ApIdle /\ ExIdle
SpecTrainStep == InitTrainStep /\ [][TsNext]_vars

InitFlatten == FlInit /\ GaeIdle /\ TrIdle /\ PgIdle /\ EpIdle /\ AlIdle /\ TsIdle /\ AgIdle /\ MrIdle /\ ApIdle /\ ExIdle
SpecFlatten == InitFlatten /\ [][FlNext]_vars

InitAddGrads == AgInit /\ AcerIdle /\ GaeIdle /\ TrIdle /\ PgIdle /\ EpIdle /\ AlIdle /\ TsIdle /\ FlIdle /\ MrIdle /\ ApIdle /\ ExIdle
SpecAddGrads == InitAddGrads /\ [][AgNext]_vars

InitModelReader == MrInit /\ AcerIdle /\ GaeIdle /\ TrIdle /\ PgIdle /\ EpIdle /\ AlIdle /\ TsIdle /\ FlIdle /\ AgIdle /\ ApIdle /\ ExIdle
SpecModelReader == InitModelReader /\ [][MrNext]_vars

InitPreprocessor == ApInit /\ AcerIdle /\ GaeIdle /\ TrIdle /\ PgIdle /\ EpIdle /\ AlIdle /\ TsIdle /\ FlIdle /\ AgIdle /\ MrIdle /\ ExIdle
SpecPreprocessor == InitPreprocessor /\ [][ApNext]_vars

InitExecutor == ExInit /\ AcerIdle /\ GaeIdle /\ TrIdle /\ PgIdle /\ EpIdle /\ AlIdle /\ TsIdle /\ FlIdle /\ AgIdle /\ MrIdle /\ ApIdle
SpecExecutor == InitExecutor /\ [][ExNext]_vars

\* ------------------------------------------------------------------------
\* Properties
\* ------------------------------------------------------------------------

\* --- properties of ACER.calculate_returns -----------------------------------

\* The bootstrap that the Retrace recursion prescribes for step t of actor e,
\* read off the inputs and the returned tensor: values[n_steps] for the last
\* step, otherwise the corrected return of step t+1.
RetraceBootstrap(e, t) ==
    LET n == acer_in.n_steps
        j == e * n + t + 1
    IN  IF t = n - 1
        THEN acer_in.values[e * (n + 1) + n]
        ELSE RAdd(RMul(RMin(ROne, acer_in.selected_importance[j]),
                       RSub(acer_out[j], acer_in.selected_critic_logits[j])),
                  acer_in.values[e * (n + 1) + t + 1])

\* C1: ACER.calculate_returns is the Retrace backward recursion per actor:
\* returns[t] = rewards[t] + gamma * next_return * (1 - dones[t]) with
\* next_return = values[n_steps] for the last step and otherwise
\* min(1, importance[t+1]) * (returns[t+1] - q[t+1]) + values[t+1]; a done
\* step returns its reward alone; there is one return per (actor, step) of
\* rewards; inside the loop current_return holds the corrected return of the
\* step just processed.
C1_RetraceRecursion ==
    LET n == acer_in.n_steps
    IN  /\ acer_pc = "done" =>
            /\ DOMAIN acer_out = DOMAIN acer_in.rewards
            /\ \A e \in 0..(acer_in.n_envs - 1), t \in 0..(n - 1) :
                 LET j == e * n + t
                 IN  /\ acer_out[j] =
                            RAdd(acer_in.rewards[j],
                                 RMul(acer_in.gamma,
                                      RMul(RetraceBootstrap(e, t),
                                           RSub(ROne, acer_in.dones[j]))))
                     /\ acer_in.dones[j] = ROne => acer_out[j] = acer_in.rewards[j]
        /\ (acer_pc = "loop" /\ acer_i < n - 1) =>
            \A e \in 0..(acer_in.n_envs - 1) :
                 LET j == e * n + acer_i + 1
                 IN  current_return[e] =
                        RAdd(RMul(RMin(ROne, acer_in.selected_importance[j]),
                                  RSub(returns[Len(returns)][e],
                                       acer_in.selected_critic_logits[j])),
                             acer_in.values[e * (n + 1) + acer_i + 1])

\* a finished call on two actors and two steps with an episode boundary and
\* an importance ratio above 1 at a step whose correction is used
C1_Witness ==
    /\ acer_pc = "done"
    /\ acer_in.n_envs >= 2
    /\ acer_in.n_steps >= 2
    /\ \E j \in DOMAIN acer_in.dones : acer_in.dones[j] = ROne
    /\ \E j \in DOMAIN acer_in.selected_importance :
          /\ j % acer_in.n_steps > 0
          /\ RLt(ROne, acer_in.selected_importance[j])

RetraceScenario ==
    /\ acer_in.n_envs = 1
    /\ acer_in.n_steps = 2
    /\ acer_in.gamma = Rat(9, 10)
    /\ acer_in.rewards = Vec2(RInt(1), RInt(2))
    /\ acer_in.dones = Vec2(RZero, RZero)
    /\ acer_in.values = Vec3(Rat(5, 10), Rat(4, 10), Rat(3, 10))
    /\ acer_in.selected_critic_logits = Vec2(Rat(6, 10), Rat(5, 10))
    /\ acer_in.selected_importance = Vec2(RInt(2), Rat(5, 10))

\* C2: for the single-actor scenario (n_steps=2, gamma=0.9, rewards=[1,2],
\* dones=[0,0], values=[0.5,0.4,0.3], q=[0.6,0.5], importance=[2,0.5]) the
\* call returns returns[1] = 2.27 and returns[0] = 2.1565, the corrected
\* next_return after step 1 being 1.285.
C2_RetraceScenario ==
    RetraceScenario =>
        /\ acer_pc = "done" =>
              /\ acer_out[1] = Rat(227, 100)
              /\ acer_out[0] = Rat(21565, 10000)
        /\ (acer_pc = "loop" /\ acer_i = 0) => current_return[0] = Rat(1285, 1000)

C2_Witness == RetraceScenario /\ acer_pc = "done"

\* --- properties of PPO.calculate_returns -------------------------------------

\* the done flag and the value the recursion reads at position s of actor e:
\* position n_steps holds a copy of dones[n_steps-1] and the bootstrap value
GaeDoneAt(e, s) ==
    IF s < gae_in.n_steps THEN gae_in.dones[s][e] ELSE gae_in.dones[gae_in.n_steps - 1][e]
GaeValueAt(e, s) ==
    IF s < gae_in.n_steps THEN gae_in.values[s][e] ELSE gae_in.next_values[e]

\* delta_t = rewards[t] + gamma * values[t+1] * (1 - dones[t+1]) - values[t]
TdResidual(e, t) ==
    RSub(RAdd(gae_in.rewards[t][e],
              RMul(gae_in.gamma, RMul(GaeValueAt(e, t + 1),
                                      RSub(ROne, GaeDoneAt(e, t + 1))))),
         GaeValueAt(e, t))

\* C3: PPO.calculate_returns is the GAE backward recursion: with
\* advantage[n_steps] = 0, advantage[t] = delta_t + gamma * lambda *
\* (1 - dones[t+1]) * advantage[t+1], the returned value is advantage[t] +
\* values[t]; dones has n_steps entries and dones[n_steps] is a copy of
\* dones[n_steps-1].
C3_GaeRecursion ==
    gae_pc = "done" =>
        /\ DOMAIN gae_in.dones = 0..(gae_in.n_steps - 1)
        /\ \A e \in 0..(gae_in.n_envs - 1), t \in 0..(gae_in.n_steps - 1) :
             LET nextAdv == IF t = gae_in.n_steps - 1 THEN RZero
                            ELSE advantages[t + 1][e]
             IN  /\ advantages[t][e] =
                        RAdd(TdResidual(e, t),
                             RMul(RMul(gae_in.gamma, gae_in.lam),
                                  RMul(RSub(ROne, GaeDoneAt(e, t + 1)), nextAdv)))
                 /\ gae_out[t][e] = RAdd(advantages[t][e], gae_in.values[t][e])

\* a finished call on two actors and two steps where the last flag is set
\* for one actor and clear for another, and lambda and gamma are not 0
C3_Witness ==
    /\ gae_pc = "done"
    /\ gae_in.n_envs >= 2
    /\ gae_in.n_steps >= 2
    /\ gae_in.lam # RZero
    /\ \E e \in 0..(gae_in.n_envs - 1) : gae_in.dones[gae_in.n_steps - 1][e] = ROne
    /\ \E e \in 0..(gae_in.n_envs - 1) :
          /\ gae_in.dones[gae_in.n_steps - 1][e] = RZero
          /\ advantages[gae_in.n_steps - 1][e] # RZero

GaeScenario ==
    /\ gae_in.n_envs = 1
    /\ gae_in.n_steps = 2
    /\ gae_in.gamma = Rat(99, 100)
    /\ gae_in.lam = Rat(95, 100)
    /\ gae_in.rewards = Vec2(Vec1(RInt(1)), Vec1(RZero))
    /\ gae_in.dones = Vec2(Vec1(RZero), Vec1(ROne))
    /\ gae_in.values = Vec2(Vec1(Rat(5, 10)), Vec1(Rat(4, 10)))
    /\ gae_in.next_values = Vec1(RZero)

\* C4 as stated: in the GAE scenario advantage[1] = -0.4, delta at step 0 is
\* 0.896, advantage[0] = 0.52378, return[0] = 1.02378 and return[1] = 0.0.
C4_GaeScenarioAsStated ==
    (GaeScenario /\ gae_pc = "done") =>
        /\ advantages[1][0] = Rat(-4, 10)
        /\ delta[0] = Rat(896, 1000)
        /\ advantages[0][0] = Rat(52378, 100000)
        /\ gae_out[0][0] = Rat(102378, 100000)
        /\ gae_out[1][0] = RZero

\* C4 amended: in the GAE scenario dones[1] = 1 is the flag read at step 0,
\* so advantage[1] = -0.4, delta at step 0 is 1 + 0.99*0.4*(1-1) - 0.5 = 0.5,
\* advantage[0] = 0.5, return[0] = 1.0 and return[1] = 0.0.
C4_GaeScenarioAmended ==
    (GaeScenario /\ gae_pc = "done") =>
        /\ advantages[1][0] = Rat(-4, 10)
        /\ delta[0] = Rat(1, 2)
        /\ advantages[0][0] = Rat(1, 2)
        /\ gae_out[0][0] = ROne
        /\ gae_out[1][0] = RZero

C4_Witness == GaeScenario /\ gae_pc = "done"

\* C5: with lambda = 0 the advantage at every step (returned value minus
\* values[t]) is the one-step TD residual, whatever the later steps hold.
C5_LambdaZero ==
    (gae_pc = "done" /\ gae_in.lam = RZero) =>
        \A e \in 0..(gae_in.n_envs - 1), t \in 0..(gae_in.n_steps - 1) :
            RSub(gae_out[t][e], gae_in.values[t][e]) = TdResidual(e, t)

\* lambda = 0 and a step whose successor is non-terminal and has a non-zero
\* advantage, which a positive lambda would have carried over
C5_Witness ==
    /\ gae_pc = "done"
    /\ gae_in.lam = RZero
    /\ \E e \in 0..(gae_in.n_envs - 1), t \in 0..(gae_in.n_steps - 2) :
          /\ gae_in.dones[t + 1][e] = RZero
          /\ advantages[t + 1][e] # RZero

GaeNoDone ==
    \A e \in 0..(gae_in.n_envs - 1), t \in 0..(gae_in.n_steps - 1) :
        gae_in.dones[t][e] = RZero

\* sum_{k=t}^{n_steps-1} gamma^(k-t) * rewards[k] + gamma^(n_steps-t) * values[n_steps]
DiscountedReturn(e, t) ==
    RAdd(RSum([k \in t..(gae_in.n_steps - 1) |->
                  RMul(RPow(gae_in.gamma, k - t), gae_in.rewards[k][e])],
              t, gae_in.n_steps - 1),
         RMul(RPow(gae_in.gamma, gae_in.n_steps - t), gae_in.next_values[e]))

\* C6: with lambda = 1 and no done flag set, the value returned for step t is
\* the full discounted return down to the bootstrap value, and the advantage
\* is that return minus values[t].
C6_LambdaOne ==
    (gae_pc = "done" /\ gae_in.lam = ROne /\ GaeNoDone) =>
        \A e \in 0..(gae_in.n_envs - 1), t \in 0..(gae_in.n_steps - 1) :
            /\ gae_out[t][e] = DiscountedReturn(e, t)
            /\ advantages[t][e] = RSub(DiscountedReturn(e, t), gae_in.values[t][e])

C6_Witness ==
    /\ gae_pc = "done"
    /\ gae_in.lam = ROne
    /\ GaeNoDone
    /\ gae_in.n_steps >= 2
    /\ gae_in.gamma = Rat(9, 10)
    /\ gae_in.next_values[0] # RZero

\* --- properties of ACER.calculate_grads --------------------------------------

\* sum(k*g) of sample r with k = -avg_probs / (probs + eps), from the inputs
TrConstraint(r) ==
    RowSum([a \in DOMAIN tr_in.g[r] |->
              RMul(RNeg(RDiv(tr_in.avg_action_probs[r][a],
                             RAdd(tr_in.action_probs[r][a], tr_in.epsilon))),
                   tr_in.g[r][a])])

\* C7: with trust_region enabled, every sample row with sum(k*g) <= delta
\* gets adjustment 0 and keeps its gradient row unchanged, so a delta above
\* every row's sum(k*g) leaves the whole batch unchanged; no adjustment is
\* negative.
C7_TrustRegionNoOp ==
    tr_pc = "projected" =>
        /\ \A r \in 0..(tr_in.n - 1) :
              /\ RLe(RZero, tr_adj[r])
              /\ RLe(TrConstraint(r), tr_in.delta) => (tr_adj[r] = RZero /\ tr_g[r] = tr_in.g[r])
        /\ (\A r \in 0..(tr_in.n - 1) : RLt(TrConstraint(r), tr_in.delta)) => tr_g = tr_in.g

\* a projected batch holding a row strictly inside the bound with non-zero k
\* and gradient, and a row outside the bound that is adjusted
C7_Witness ==
    /\ tr_pc = "projected"
    /\ \E r \in 0..(tr_in.n - 1) :
          /\ RLt(TrConstraint(r), tr_in.delta)
          /\ TrConstraint(r) # RZero
          /\ tr_adj[r] = RZero
    /\ \E r \in 0..(tr_in.n - 1) :
          /\ RLt(tr_in.delta, TrConstraint(r))
          /\ tr_g[r] # tr_in.g[r]

\* --- properties of PPO.update_gradients --------------------------------------

\* r = exp(log_prob - old_log_prob) of sample i, from the inputs
PgR(i) == RDiv(pg_in.probs[i].prob, pg_in.probs[i].old_prob)

\* mean(-advantage * r)
PgPlain ==
    Mean([i \in 0..(pg_in.n - 1) |-> RMul(RNeg(pg_in.sample[i].advantage), PgR(i))])

PgAllInside ==
    \A i \in 0..(pg_in.n - 1) :
        /\ RLe(RSub(ROne, pg_in.clip_norm), PgR(i))
        /\ RLe(PgR(i), RAdd(ROne, pg_in.clip_norm))

\* C8: when every ratio lies in [1 - clip_norm, 1 + clip_norm], pg_loss is
\* mean(-advantage * r); for any clip_norm pg_loss is
\* mean(max(-advantage*r, -advantage*clip(r, 1-clip_norm, 1+clip_norm))) and
\* never smaller than mean(-advantage * r).
C8_ClipNoOp ==
    pg_pc = "done" =>
        /\ PgAllInside => pg_loss = PgPlain
        /\ pg_loss =
             Mean([i \in 0..(pg_in.n - 1) |->
                LET a == pg_in.sample[i].advantage
                    lo == RSub(ROne, pg_in.clip_norm)
                    hi == RAdd(ROne, pg_in.clip_norm)
                    c == IF RLt(PgR(i), lo) THEN lo
                         ELSE IF RLt(hi, PgR(i)) THEN hi ELSE PgR(i)
                IN  IF RLe(RMul(RNeg(a), c), RMul(RNeg(a), PgR(i)))
                    THEN RMul(RNeg(a), PgR(i)) ELSE RMul(RNeg(a), c)])
        /\ RLe(PgPlain, pg_loss)

\* a loss over two samples whose ratios differ from 1 and from each other,
\* all inside the clip range, with non-zero advantages
C8_Witness ==
    /\ pg_pc = "done"
    /\ pg_in.n >= 2
    /\ PgAllInside
    /\ PgR(0) # ROne
    /\ PgR(1) # PgR(0)
    /\ pg_in.sample[0].advantage # RZero
    /\ pg_in.sample[1].advantage # RZero
    /\ pg_loss # RZero

\* --- properties of PPO.run_ppo_epochs ----------------------------------------

\* the mini-batches recorded for an epoch are exactly mini_batches partitions
\* of equal size, and every transition index lies in exactly one of them
EpPartitioned ==
    /\ Len(partitions) = ep_in.mini_batches
    /\ \A a, b \in 1..Len(partitions) : Len(partitions[a]) = Len(partitions[b])
    /\ \A j \in 0..(ep_in.batch_size - 1) :
          Cardinality({ pq \in { <<a, q>> : a \in 1..Len(partitions),
                                            q \in 1..ep_in.batch_size } :
                          /\ pq[2] <= Len(partitions[pq[1]])
                          /\ partitions[pq[1]][pq[2]] = j }) = 1

\* one call: it is not abandoned, every completed epoch is partitioned,
\* update_gradients has run once per partition formed so far, and a finished
\* call has made ppo_epochs * mini_batches updates
EpExactUpdates ==
    /\ ep_pc # "error"
    /\ ((ep_pc = "epoch" /\ ep_epoch > 0) \/ ep_pc = "done") => EpPartitioned
    /\ ep_pc = "batch" => updates = ep_epoch * ep_in.mini_batches + Len(partitions)
    /\ ep_pc = "epoch" => updates = ep_epoch * ep_in.mini_batches
    /\ ep_pc = "done" => updates = ep_in.ppo_epochs * ep_in.mini_batches

\* C9 as stated: for every batch_size and every mini_batches >= 1 one call
\* performs exactly ppo_epochs * mini_batches updates, each epoch splitting
\* the shuffled indices into mini_batches equal partitions that cover every
\* index once, with one update per partition.
C9_EpochsAsStated == EpExactUpdates

\* C9 amended: the same, for every batch_size and mini_batches >= 1 such that
\* mini_batches divides batch_size.
C9_EpochsAmended == (ep_in.batch_size % ep_in.mini_batches = 0) => EpExactUpdates

\* a finished call of two epochs over four transitions in two mini-batches,
\* the last shuffle having moved the indices
C9_Witness ==
    /\ ep_pc = "done"
    /\ ep_in.batch_size = 4
    /\ ep_in.mini_batches = 2
    /\ ep_in.ppo_epochs = 2
    /\ indices # [j \in 0..3 |-> j]
    /\ updates = 4

\* C10 as stated: the advantages handed to update_gradients are standardised
\* over the mini-batch, so their mean over the mini-batch is zero.
C10_StandardizedAsStated ==
    updates > 0 =>
        RSum(advantages_mb, 1, Len(advantages_mb)) = RZero

\* --- properties of ACER.calculate_losses -------------------------------------

AlSamples == 0..(acer_in.n_envs * acer_in.n_steps - 1)

\* advantage = returns - values without each actor's bootstrap value
AlAdvantage(j) ==
    RSub(acer_out[j], acer_in.values[(j \div acer_in.n_steps) * (acer_in.n_steps + 1)
                                     + (j % acer_in.n_steps)])

\* critic_loss = mean(0.5 * (returns - selected_critic_logits)^2)
AlCriticLoss ==
    Mean([j \in AlSamples |->
        RMul(Rat(1, 2), RMul(RSub(acer_out[j], acer_in.selected_critic_logits[j]),
                             RSub(acer_out[j], acer_in.selected_critic_logits[j])))])

\* actor_loss = -mean(log(selected_probs+eps) * advantage * min(importance_c, selected_importance))
AlActorLoss ==
    RNeg(Mean([j \in AlSamples |->
        RMul(RMul(Log(RAdd(al_in.selected_probs[j], al_in.epsilon)), AlAdvantage(j)),
             RMin(al_in.importance_c, acer_in.selected_importance[j]))]))

\* C11: with trust_region disabled, the scalar calculate_losses returns is
\* actor_loss + value_loss_coef * critic_loss - entropy_coef * entropy, the
\* coefficient multiplying the critic loss exactly once, for every
\* value_loss_coef.
C11_CoefficientOnceAsStated ==
    (al_pc = "done" /\ ~al_in.trust_region) =>
        /\ al_action_loss = AlActorLoss
        /\ al_out = << RSub(RAdd(AlActorLoss, RMul(al_in.value_loss_coef, AlCriticLoss)),
                            RMul(al_in.entropy_coef, al_entropy)) >>

\* C12: the importance weight of the actor-gain term is
\* min(importance_c, selected_importance), never above importance_c, and is
\* independent of the min(1, selected_importance) of calculate_returns: where
\* 1 < selected_importance <= importance_c the weight is selected_importance
\* and the Retrace coefficient that calculate_returns used is 1.
C12_ActorGainWeight ==
    al_pc = "done" =>
        /\ al_action_loss = AlActorLoss
        /\ \A j \in AlSamples :
            LET imp == acer_in.selected_importance[j]
            IN  /\ al_weight[j] = RMin(al_in.importance_c, imp)
                /\ RLe(al_weight[j], al_in.importance_c)
                /\ (RLt(ROne, imp) /\ RLe(imp, al_in.importance_c)) =>
                      /\ al_weight[j] = imp
                      /\ AcerImportanceBar[j % acer_in.n_steps][j \div acer_in.n_steps] = ROne

\* a finished loss with one sample whose ratio lies strictly between 1 and
\* importance_c and one whose ratio exceeds importance_c and whose advantage
\* is not zero
C12_Witness ==
    /\ al_pc = "done"
    /\ \E j, m \in AlSamples :
        /\ RLt(ROne, acer_in.selected_importance[j])
        /\ RLt(acer_in.selected_importance[j], al_in.importance_c)
        /\ al_weight[j] = acer_in.selected_importance[j]
        /\ AcerImportanceBar[j % acer_in.n_steps][j \div acer_in.n_steps] = ROne
        /\ RLt(al_in.importance_c, acer_in.selected_importance[m])
        /\ al_weight[m] = al_in.importance_c
        /\ AlAdvantage(m) # RZero
    /\ al_action_loss # RZero

\* --- properties of ACER.train_step -------------------------------------------

TsActors == 0..(ts_cfg.n_envs - 1)

\* a train_step call has returned and no other has started
TsReturned == ts_pc = "call" /\ ts_iter >= 1

\* C13: no replay batch is sampled from a store whose occupancy is below its
\* initial_size; replay updates run only if replay_ratio > 0 and the store is
\* ready, and the check on buffers[0] holds for every actor's store.
C13_SampleOnlyWhenReady ==
    /\ \A i \in DOMAIN sample_occ : sample_occ[i] >= ts_cfg.initial_size
    /\ \A i \in DOMAIN buffers : Len(buffers[i]) = Len(buffers[0])
    /\ (ts_pc = "run" /\ py_done > 2) =>
          /\ ts_cfg.replay_ratio > 0
          /\ \A i \in TsActors : Len(buffers[i]) >= ts_cfg.initial_size

\* a replay batch drawn, in a later call than the first, from the stores of
\* two actors that hold more than one entry
C13_Witness ==
    /\ ts_pc = "run"
    /\ ts_iter >= 2
    /\ ts_cfg.n_envs >= 2
    /\ sample_occ # << >>
    /\ \A i \in TsActors : sample_occ[i] >= 2 /\ sample_occ[i] >= ts_cfg.initial_size

\* C14: in every iteration the fresh batch is collected and stored first, then
\* one update from it is computed and completes, then the replay updates run
\* one at a time; no update starts before the previous one, its
\* moving-average update included, has finished.
C14_OrderAsStated ==
    (ts_pc = "run" /\ fwd_done >= 1) =>
        /\ py_done >= 1
        /\ apply_done >= fwd_done - 1
        /\ ema_done >= fwd_done - 1
        /\ py_done >= 2 * (fwd_done - 1)

\* C15: in every iteration with replay enabled and a ready store, k is drawn
\* anew from Poisson(replay_ratio), every one of the k replay updates has its
\* own sampled batch, and the iteration makes 1 + k updates.
C15_FreshDrawAsStated ==
    (TsReturned /\ ts_cfg.replay_ratio > 0 /\ Len(buffers[0]) >= ts_cfg.initial_size) =>
        /\ ts_drawn
        /\ apply_done = 1 + graph.k
        /\ py_done = 2 + 2 * graph.k

\* C16: a store created with max_size = buffer_max_size // n_envs never holds
\* more than max_size entries; it holds the most recent min(appends, max_size)
\* entries in insertion order, the oldest being dropped first.
C16_StoreFifo ==
    \A i \in DOMAIN buffers :
        LET max_size == ts_cfg.buffer_max_size \div ts_cfg.n_envs
            held == IF appends < max_size THEN appends ELSE max_size
        IN  /\ Len(buffers[i]) <= max_size
            /\ Len(buffers[i]) = held
            /\ \A q \in 1..held :
                  buffers[i][q] = [batch |-> appends - held + q, actor |-> i]

\* stores of two actors that have dropped more than one entry and still hold
\* more than one
C16_Witness ==
    /\ ts_cfg # << >>
    /\ ts_cfg.n_envs >= 2
    /\ ts_cfg.buffer_max_size \div ts_cfg.n_envs >= 2
    /\ appends >= ts_cfg.buffer_max_size \div ts_cfg.n_envs + 1
    /\ \A i \in TsActors : Len(buffers[i]) = ts_cfg.buffer_max_size \div ts_cfg.n_envs

\* batches collected so far: get_batch is the first numpy_function op of every
\* train_step call
TsCollected == IF ts_pc = "run" /\ py_done = 0 THEN ts_iter - 1 ELSE ts_iter

\* C27: every get_batch call appends exactly one entry, the actor's own part
\* of the batch, to each of the n_envs stores and to no other store; all stores
\* have the same occupancy min(collected batches, max_size), whatever number
\* of replay updates has run: a replay update appends nothing.
C27_OneEntryPerActor ==
    ts_cfg # << >> =>
        /\ DOMAIN buffers = TsActors
        /\ \A i \in TsActors :
              LET held == IF TsCollected < ts_cfg.max_size THEN TsCollected
                          ELSE ts_cfg.max_size
              IN  /\ Len(buffers[i]) = held
                  /\ Len(buffers[i]) = Len(buffers[0])
                  /\ held >= 1 => buffers[i][held] = EnvOutputs(TsCollected, i)
                  /\ \A q \in 1..held : buffers[i][q].actor = i

\* three batches collected by two actors with replay updates in every call:
\* the stores are full and hold as many entries as each other
C27_Witness ==
    /\ TsReturned
    /\ ts_iter = 3
    /\ ts_cfg.n_envs = 2
    /\ ts_cfg.max_size = 2
    /\ graph.k >= 1
    /\ \A i \in TsActors : Len(buffers[i]) = 2

\* C17: after every completed update_gradients call the moving average has
\* been updated once from the weights the optimizer step wrote and the
\* average network holds those moving-average values; the copy comes after
\* the moving-average update of its update.
C17_AverageNetworkAsStated ==
    /\ TsReturned =>
          /\ ema_done = apply_done
          /\ avg_weights = ema_avg
    /\ ts_pc = "run" => ema_done >= py_done \div 2

\* --- properties of the flat layout -------------------------------------------

FlActors == 0..(fl_in.n_envs - 1)
FlStepsOf == 0..(fl_in.n_steps - 1)

\* the Retrace return of actor e at step s, computed on the actor's own
\* trajectory as it was collected
RECURSIVE FlReturn(_, _)
FlReturn(e, s) ==
    LET nxt == IF s = fl_in.n_steps - 1
               THEN FlBoot(e)
               ELSE RAdd(RMul(RMin(ROne, FlRaw(s + 1, e).imp),
                              RSub(FlReturn(e, s + 1), FlRaw(s + 1, e).q)),
                         FlRaw(s + 1, e).v)
    IN  RAdd(FlRaw(s, e).r,
             RMul(RMul(fl_in.gamma, nxt), RSub(ROne, FlRaw(s, e).d)))

\* C18: get_batch puts the value of actor e at step s at flat index
\* e*n_steps + s; flat_to_steps gives it back as element e of its s-th output;
\* stacking those outputs along the step axis and flattening returns the flat
\* tensor; calculate_returns emits its returns in the same flat order; and
\* clip_last_step on n_envs*(n_steps+1) entries drops each actor's last step
\* and keeps the others in order.
C18_FlatLayout ==
    LET n == fl_in.n_steps
    IN  /\ fl_pc \in {"batch", "steps", "stacked", "clipped", "returns"} =>
            /\ DOMAIN fl_batch.transitions = 0..(fl_in.n_envs * n - 1)
            /\ \A e \in FlActors, s \in FlStepsOf :
                  fl_batch.transitions[e * n + s] = [at |-> <<s, e>>, data |-> FlRaw(s, e)]
            /\ \A e \in FlActors, s \in 0..n :
                  fl_batch.states[e * (n + 1) + s].at = <<s, e>>
        /\ fl_pc \in {"steps", "stacked", "clipped", "returns"} =>
            /\ DOMAIN fl_steps = FlStepsOf
            /\ \A e \in FlActors, s \in FlStepsOf : fl_steps[s][e].at = <<s, e>>
        /\ fl_pc \in {"stacked", "clipped", "returns"} => fl_restacked = fl_batch.transitions
        /\ fl_pc \in {"clipped", "returns"} =>
            /\ DOMAIN fl_clipped = 0..(fl_in.n_envs * n - 1)
            /\ \A e \in FlActors, s \in FlStepsOf :
                  fl_clipped[e * n + s] = fl_batch.states[e * (n + 1) + s]
            /\ \A j \in DOMAIN fl_clipped : fl_clipped[j].at[1] # n
        /\ (fl_pc = "returns" /\ acer_pc = "done") =>
            /\ DOMAIN acer_out = 0..(fl_in.n_envs * n - 1)
            /\ \A e \in FlActors, s \in FlStepsOf : acer_out[e * n + s] = FlReturn(e, s)

\* the whole chain has run on two actors and two steps whose returns differ
\* between the actors and between the steps
C18_Witness ==
    /\ fl_pc = "returns"
    /\ acer_pc = "done"
    /\ fl_in.n_envs >= 2
    /\ fl_in.n_steps >= 2
    /\ acer_out[0] # acer_out[1]
    /\ acer_out[1] # acer_out[fl_in.n_steps]
    /\ acer_out[0] # acer_out[fl_in.n_steps]
    /\ fl_clipped[fl_in.n_steps].at = <<0, 1>>

\* --- properties of ACER.add_grads ---------------------------------------------

\* both gradients of parameter q are None
AgBothNone(q) == ag_in[q][1] = None /\ ag_in[q][2] = None

\* C19: add_grads fails with 'Gradients are None' when both gradients are
\* None; otherwise it returns g1 + g2 when both are present and the one that
\* is present when the other is None.  In trust-region mode a parameter with
\* neither gradient ends the update before any optimizer step or
\* moving-average update.
C19_AddGrads ==
    /\ \A q \in 1..Len(ag_grads) :
          LET g1 == ag_in[q][1]
              g2 == ag_in[q][2]
          IN  /\ ~AgBothNone(q)
              /\ (g1 # None /\ g2 # None) => ag_grads[q] = RAdd(g1, g2)
              /\ (g1 # None /\ g2 = None) => ag_grads[q] = g1
              /\ (g1 = None /\ g2 # None) => ag_grads[q] = g2
    /\ ag_pc = "raised" =>
          /\ AgBothNone(ag_i + 1)
          /\ ag_error = "Gradients are None"
    /\ (ag_pc # "idle" /\ \E q \in 1..Len(ag_in) : AgBothNone(q)) =>
          /\ ag_steps = 0
          /\ ag_ema_updates = 0
          /\ ag_pc # "done"
    /\ ag_pc = "done" => (ag_steps = 1 /\ Len(ag_grads) = Len(ag_in))

\* the assertion has ended an update whose first parameter had both gradients
\* and whose second had none
C19_Witness ==
    /\ ag_pc = "raised"
    /\ ag_error = "Gradients are None"
    /\ Len(ag_in) >= 2
    /\ Len(ag_grads) = 1
    /\ ag_in[1][1] # None
    /\ ag_in[1][2] # None
    /\ ag_grads[1] = RAdd(ag_in[1][1], ag_in[1][2])
    /\ ag_steps = 0

\* --- properties of ModelReader -------------------------------------------------

\* number of dense sections without units among the first n sections
RECURSIVE MrUnitless(_)
MrUnitless(n) ==
    IF n = 0 THEN 0
    ELSE MrUnitless(n - 1)
         + (IF mr_in.sections[n].kind = "dense" /\ mr_in.sections[n].units = 0
            THEN 1 ELSE 0)

\* C20: the k-th dense section without units, in configuration order, gets
\* output_units[k]; the assertion 'Output units given are less than dense
\* layers required' fails as soon as such a section is reached with every
\* output unit consumed; after a completed build_model output_count is 0, and
\* a second build_model assigns the same units as the first.
C20_OutputUnits ==
    /\ \A q \in 1..Len(mr_layers) :
          IF mr_in.sections[q].kind = "dense" /\ mr_in.sections[q].units = 0
          THEN mr_layers[q] =
                  [kind |-> "dense", units |-> mr_in.output_units[MrUnitless(q - 1) + 1]]
          ELSE mr_layers[q] = mr_in.sections[q]
    /\ mr_pc = "raised" =>
          /\ mr_error = "Output units given are less than dense layers required"
          /\ mr_in.sections[mr_sec + 1].kind = "dense"
          /\ mr_in.sections[mr_sec + 1].units = 0
          /\ output_count = Len(mr_in.output_units)
          /\ Len(mr_layers) = mr_sec
    /\ (mr_pc = "loop" /\ mr_builds = mr_calls - 1) =>
          /\ output_count = MrUnitless(mr_sec)
          /\ output_count <= Len(mr_in.output_units)
    /\ (mr_pc = "call" /\ mr_builds >= 1) =>
          /\ output_count = 0
          /\ Len(mr_layers) = Len(mr_in.sections)
          /\ mr_layers = mr_first

\* a second build_model has completed on a reader with two dense sections
\* without units, which received different units
C20_Witness ==
    /\ mr_pc = "call"
    /\ mr_builds = 2
    /\ MrUnitless(Len(mr_in.sections)) = 2
    /\ \E q, r \in 1..Len(mr_layers) :
          /\ q < r
          /\ mr_layers[q] = [kind |-> "dense", units |-> mr_in.output_units[1]]
          /\ mr_layers[r] = [kind |-> "dense", units |-> mr_in.output_units[2]]
          /\ mr_in.output_units[1] # mr_in.output_units[2]
    /\ mr_layers = mr_first

\* --- properties of AtariPreprocessor ------------------------------------------

\* the constructor has run, or has raised
ApConstructed == ap_pc \notin {"idle", "new"}

\* C25: the constructor accepts every frame_skips >= 1, frame_skips = 1
\* included, and fails with the assertion for every frame_skips < 1.
C25_FrameSkipsAsStated ==
    ApConstructed =>
        /\ ap_in.frame_skips >= 1 => (ap_pc # "raised" /\ ap_error = "")
        /\ ap_in.frame_skips < 1 => (ap_pc = "raised" /\ ap_error # "")

\* sum of the rewards of the inner steps 1..n of the current step call
RECURSIVE ApRewardSum(_)
ApRewardSum(n) == IF n = 0 THEN 0 ELSE ApRewardSum(n - 1) + ap_inner[n].reward

\* m is the largest intensity of pixel p over the frames of the buffer
ApIsMaxOfPixel(m, p) ==
    /\ \E q \in 1..Len(observation_buffer) : observation_buffer[q][p] = m
    /\ \A q \in 1..Len(observation_buffer) : observation_buffer[q][p] <= m

\* the last call that has returned is a step / a reset, and nothing has been
\* called since
ApAfterStep == ap_pc = "ready" /\ ap_ret # << >> /\ ap_ret.call = "step"
ApAfterReset == ap_pc = "ready" /\ ap_ret # << >> /\ ap_ret.call = "reset"

ExFresh == ex_pre = [command |-> Unset, agent_id |-> Unset, agent |-> Unset]

\* the last call left self.command and self.agent_id as they were
ExUnchanged == command = ex_pre.command /\ agent_id = ex_pre.agent_id

\* the first two entries of argv, as far as argv has them, are a registered
\* command and a registered agent id
ExRegistered(argv) ==
    /\ Len(argv) >= 1 => argv[1] \in Commands
    /\ Len(argv) >= 2 => argv[2] \in Agents

\* the options the help menu lists for a registered argv of one or two entries
ExHelpFlags(argv) ==
    DOMAIN NonAgentArgs \cup DOMAIN AgentArgs \cup DOMAIN CommandArgs(argv[1])
        \cup (IF Len(argv) = 2 THEN DOMAIN ModuleArgs(argv[2]) ELSE {})
        \cup (IF Len(argv) = 2 /\ argv[2] = "acer" THEN DOMAIN OffPolicyArgs ELSE {})

\* C21 as the claim states it: maybe_create_agent sets command and agent_id
\* only for an argv of three or more entries whose first two are registered,
\* printing nothing; for every argv of fewer than three entries it prints the
\* help menu and leaves both attributes alone, and execute on a fresh Executor
\* returns without an agent.
C21_ShortArgvAsStated ==
    /\ (ex_call = "maybe_create_agent" /\ ~ExUnchanged) =>
          /\ Len(ex_argv) >= 3 /\ ExRegistered(ex_argv)
          /\ ex_out = NoOutput
    /\ (ex_call = "maybe_create_agent" /\ Len(ex_argv) < 3) =>
          /\ ex_out # NoOutput
          /\ ExUnchanged
    /\ (ex_call = "execute" /\ ExFresh /\ Len(ex_argv) < 3) =>
          /\ ex_error = ""
          /\ agent = Unset

\* C21, amended: the help menu is printed for the argv of fewer than three
\* entries whose entries are registered (base menu alone for the empty argv,
\* one section with the command's or the command's and agent's options
\* otherwise); an argv with an unregistered entry prints nothing and raises.
\* Either way command and agent_id stay as they were, and execute on a fresh
\* Executor ends without an agent: by returning when the entries are
\* registered, by the AssertionError otherwise.
C21_ShortArgvAmended ==
    /\ (ex_call = "maybe_create_agent" /\ ~ExUnchanged) =>
          Len(ex_argv) >= 3 /\ ExRegistered(ex_argv)
    /\ (ex_call = "maybe_create_agent" /\ Len(ex_argv) >= 3 /\ ExRegistered(ex_argv)) =>
          /\ command = ex_argv[1]
          /\ agent_id = ex_argv[2]
          /\ ex_out = NoOutput
          /\ ex_error = ""
    /\ (ex_call = "maybe_create_agent" /\ Len(ex_argv) < 3) =>
          /\ ExUnchanged
          /\ IF ExRegistered(ex_argv)
             THEN /\ ex_error = ""
                  /\ ex_out # NoOutput
                  /\ ex_out.base
                  /\ IF ex_argv = << >> THEN ex_out.sections = << >>
                     ELSE /\ Len(ex_out.sections) = 1
                          /\ ex_out.sections[1].title = ex_argv
                          /\ ex_out.sections[1].flags = ExHelpFlags(ex_argv)
             ELSE /\ ex_error \in {"Invalid command", "Invalid agent"}
                  /\ ex_out = NoOutput
    /\ (ex_call = "execute" /\ ExFresh /\ Len(ex_argv) < 3) =>
          /\ agent = Unset
          /\ ExUnchanged
          /\ ex_warning = {}
          /\ ex_error = "" <=> ExRegistered(ex_argv)

\* maybe_create_agent(['tune', 'acer']) on an Executor that holds train / a2c:
\* the menu with the off-policy options is printed, the attributes stay
C21_Witness ==
    /\ ex_call = "maybe_create_agent"
    /\ ex_argv = << "tune", "acer" >>
    /\ ex_pre.command = "train"
    /\ ex_pre.agent_id = "a2c"
    /\ command = "train"
    /\ ex_out # NoOutput
    /\ "--buffer-max-size" \in ex_out.sections[1].flags
    /\ "--ema-alpha" \in ex_out.sections[1].flags

\* C22: maybe_create_agent raises 'Invalid command' whenever argv is not empty
\* and argv[0] is not a registered command, and 'Invalid agent' whenever argv
\* has two or more entries, argv[0] is registered and argv[1] is not; command
\* and agent_id stay as they were and nothing is printed.
C22_InvalidEntries ==
    ex_call \in {"maybe_create_agent", "execute"} =>
        /\ InvalidCommand(ex_argv) <=> ex_error = "Invalid command"
        /\ (Len(ex_argv) >= 2 /\ ex_argv[1] \in Commands /\ ex_argv[2] \notin Agents)
              <=> ex_error = "Invalid agent"
        /\ ex_error \in {"Invalid command", "Invalid agent"} =>
              /\ ExUnchanged
              /\ agent = ex_pre.agent
              /\ ex_out = NoOutput
              /\ ex_warning = {}
              /\ ex_ret = << >>

\* an argv of four entries with an unregistered agent, given to an Executor
\* that holds tune / a2c
C22_Witness ==
    /\ ex_call = "maybe_create_agent"
    /\ ex_argv = << "train", "invalid", "--env", "test-env" >>
    /\ ex_pre.command = "tune"
    /\ ex_pre.agent_id = "a2c"
    /\ ex_error = "Invalid agent"
    /\ command = "tune"
    /\ agent_id = "a2c"

\* the last call parsed ex_argv with all three parsers, and none gave up
ExParsed ==
    /\ ex_call \in {"parse_all_groups", "parse_known_args"}
    /\ ex_error \notin {"KeyError", "SystemExit"}

\* positions of ex_argv that the general, the agent and the command parser
\* left over
ExExtra1 == ParserParseKnownArgs(GeneralTable(agent_id), ex_argv).extra
ExExtra2 == ParserParseKnownArgs(AgentTable(agent_id), ex_argv).extra
ExExtra3 == ParserParseKnownArgs(CommandTable(command), ex_argv).extra

\* C23: the warning 'Got unknown flags' is emitted exactly when argv holds an
\* entry with '--' in it that none of the three parsers recognises and that is
\* neither the command nor the agent id; an option one of the parsers
\* recognises never triggers it; the parsed result has exactly the expected
\* keys with or without unknown flags.
C23_UnknownFlagsAsStated ==
    ExParsed =>
        /\ ex_warning # {} <=>
              \E i \in 1..Len(ex_argv) :
                  /\ HasDashes(ex_argv[i])
                  /\ ex_argv[i] \notin {command, agent_id}
                  /\ i \in ExExtra1 \cap ExExtra2 \cap ExExtra3
        /\ \A f \in ex_warning :
              f \notin DOMAIN GeneralTable(agent_id) \cup DOMAIN AgentTable(agent_id)
                          \cup DOMAIN CommandTable(command)
        /\ (ex_call = "parse_all_groups" /\ ex_error = "") =>
              /\ DOMAIN ex_ret[1] = DOMAIN GeneralTable(agent_id)
              /\ DOMAIN ex_ret[2] = DOMAIN AgentTable(agent_id)
              /\ DOMAIN ex_ret[3] = DOMAIN CommandTable(command)

\* C24: for the command train, parse_known_args fails with 'train requires
\* --target-reward or --max-steps' if and only if neither option is in argv;
\* with at least one of them, whatever its numeric value, parsing succeeds;
\* no other command has the requirement.
C24_TrainRequiresAsStated ==
    (ExParsed /\ ex_call = "parse_known_args") =>
        LET supplied == \E i \in 1..Len(ex_argv) :
                            ex_argv[i] \in {"--target-reward", "--max-steps"}
        IN  IF command = "train"
            THEN ex_error = "train requires --target-reward or --max-steps" <=> ~supplied
            ELSE ex_error = ""

====
